---- MODULE Spec2Model ----
(***************************************************************************)
(* Model of the co-op snake game: the game engine of                       *)
(* src/lib/game/gameLogic.ts and the host/client coordination of           *)
(* src/routes/+page.svelte, src/lib/components/GameBoard.svelte and        *)
(* src/lib/network/peerConnection.ts.                                      *)
(*                                                                         *)
(* The specifications are defined over the same variables:                 *)
(*   EngineSpec  applies the engine's pure functions (initializeGame,      *)
(*               updateGame, changeDirection, addPlayerToGame) to states   *)
(*               drawn from initializeGame under small settings;           *)
(*   SettingsSpec does the same from settings with a longer snake;         *)
(*   FoodSpec    follows one call of generateFood draw by draw;            *)
(*   Spec        runs one host page and the client pages connected to it.  *)
(***************************************************************************)
EXTENDS Integers, Sequences, FiniteSets, TLC

(***************************************************************************)
(* Program constants.                                                      *)
(***************************************************************************)
\* gameLogic.ts:6-11, SNAKE_COLORS
SNAKE_COLORS ==
    << "var(--color-snake1)", "var(--color-snake2)",
       "var(--color-snake3)", "var(--color-snake4)" >>

\* gameLogic.ts:19, DEFAULT_SETTINGS.maxPlayers = SNAKE_COLORS.length
MaxPlayers == 4

\* gameLogic.ts:18, DEFAULT_SETTINGS.initialSnakeLength
InitialSnakeLength == 3

\* gameLogic.ts:36, padding (distance of the spawn rows/columns from the edge)
Padding == 2

(***************************************************************************)
(* Bounds of the model.  The grid, the food count and the initial snake    *)
(* length are settings of initializeGame (the page uses 30x30, 3 and 3);   *)
(* the model runs the same code on smaller settings.                       *)
(***************************************************************************)
\* grid of the host/client specification
GridW == 10
GridH == 6
\* grid of the engine specification
EngW == 5
EngH == 3
\* number of food items kept on the board
FoodCount == 1
\* Math.random lands on the column of the first snake's spawn head, 1 to
\* RandSpan rows above or below it (toroidally)
RandSpan == 1
\* grid of the food generation specification
FoodW == 3
FoodH == 2
\* updateGame calls in one behaviour of EngineSpec
MaxEngineTicks == 3
\* changeDirection calls and pause toggles in one behaviour of EngineSpec
MaxEngineCalls == 2
\* game loop firings (of all pages together) in one behaviour of Spec
MaxTicks == 2
\* player intents (direction, pause, restart; of all pages together) in one
\* behaviour of Spec
MaxInputs == 1
\* further player intents in one behaviour of Spec while the host's game is
\* paused
MaxPausedInputs == 1
\* connectToHost calls (of all clients together) in one behaviour of Spec
MaxConnects == 3
\* events queued for one socket at a time in Spec
MaxQueue == 2
\* game loop firings, player intents and connectToHost calls together in
\* one behaviour of Spec
MaxEvents == 4

Directions == {"UP", "DOWN", "LEFT", "RIGHT"}

Pos(px, py) == [x |-> px, y |-> py]

Grid(w, h) == [width |-> w, height |-> h]

Cells(gridSize) ==
    {Pos(px, py) : px \in 0..(gridSize.width - 1), py \in 0..(gridSize.height - 1)}

\* the elements of a sequence, as a set
Range(s) == {s[i] : i \in 1..Len(s)}

\* Array.prototype.flat on an array of bodies, as the set of its cells
FlatCells(bodies) == UNION {Range(bodies[i]) : i \in 1..Len(bodies)}

\* Array.prototype.findIndex, 1-based; 0 stands for -1
RECURSIVE FindFrom(_, _, _)
FindFrom(s, Test(_), i) ==
    IF i > Len(s) THEN 0
    ELSE IF Test(s[i]) THEN i
    ELSE FindFrom(s, Test, i + 1)

FindIndex(s, Test(_)) == FindFrom(s, Test, 1)

\* Array.prototype.splice(i, 1)
RemoveAt(s, i) == SubSeq(s, 1, i - 1) \o SubSeq(s, i + 1, Len(s))

(***************************************************************************)
(* gameLogic.ts                                                            *)
(***************************************************************************)
getPlayerColor(playerIndex) == SNAKE_COLORS[(playerIndex % Len(SNAKE_COLORS)) + 1]

\* mutant of getInitialSnakePlacement: the spawns of indexes 2 and 3 are
\* exchanged
getInitialSnakePlacement_SwapsCorners(playerIndex, gridSize, length) ==
    LET leftX  == Padding + length - 1
        rightX == gridSize.width - 1 - Padding - length + 1
        topY   == Padding
        botY   == gridSize.height - 1 - Padding
        midX   == (gridSize.width \div 2) + (IF playerIndex % 2 = 0 THEN -2 ELSE 2)
        midY   == (gridSize.height \div 2) + (IF playerIndex % 3 = 0 THEN -2 ELSE 2)
        column == [i \in 1..length |-> Pos(midX, midY + (i - 1))]
    IN  CASE playerIndex = 0 ->
               [body |-> [i \in 1..length |-> Pos(leftX - (i - 1), topY)],
                direction |-> "RIGHT"]
          [] playerIndex = 1 ->
               [body |-> [i \in 1..length |-> Pos(rightX + (i - 1), botY)],
                direction |-> "LEFT"]
          [] playerIndex = 3 ->
               [body |-> [i \in 1..length |-> Pos(rightX + (i - 1), topY)],
                direction |-> "LEFT"]
          [] playerIndex = 2 ->
               [body |-> [i \in 1..length |-> Pos(leftX - (i - 1), botY)],
                direction |-> "RIGHT"]
          [] OTHER ->
               [body |-> [i \in 1..length |->
                            IF i = 1 THEN column[length]
                            ELSE IF i = length THEN column[1]
                            ELSE column[i]],
                direction |-> << "UP", "DOWN", "LEFT", "RIGHT" >>[(playerIndex % 4) + 1]]

\* mutant of getInitialSnakePlacement: the body of index 1 does not extend
\* from its head
getInitialSnakePlacement_StackedBody(playerIndex, gridSize, length) ==
    LET leftX  == Padding + length - 1
        rightX == gridSize.width - 1 - Padding - length + 1
        topY   == Padding
        botY   == gridSize.height - 1 - Padding
        midX   == (gridSize.width \div 2) + (IF playerIndex % 2 = 0 THEN -2 ELSE 2)
        midY   == (gridSize.height \div 2) + (IF playerIndex % 3 = 0 THEN -2 ELSE 2)
        column == [i \in 1..length |-> Pos(midX, midY + (i - 1))]
    IN  CASE playerIndex = 0 ->
               [body |-> [i \in 1..length |-> Pos(leftX - (i - 1), topY)],
                direction |-> "RIGHT"]
          [] playerIndex = 1 ->
               [body |-> [i \in 1..length |-> Pos(rightX, botY)],
                direction |-> "LEFT"]
          [] playerIndex = 2 ->
               [body |-> [i \in 1..length |-> Pos(rightX + (i - 1), topY)],
                direction |-> "LEFT"]
          [] playerIndex = 3 ->
               [body |-> [i \in 1..length |-> Pos(leftX - (i - 1), botY)],
                direction |-> "RIGHT"]
          [] OTHER ->
               [body |-> [i \in 1..length |->
                            IF i = 1 THEN column[length]
                            ELSE IF i = length THEN column[1]
                            ELSE column[i]],
                direction |-> << "UP", "DOWN", "LEFT", "RIGHT" >>[(playerIndex % 4) + 1]]

getInitialSnakePlacement(playerIndex, gridSize, length) ==
    LET leftX  == Padding + length - 1
        rightX == gridSize.width - 1 - Padding - length + 1
        topY   == Padding
        botY   == gridSize.height - 1 - Padding
        midX   == (gridSize.width \div 2) + (IF playerIndex % 2 = 0 THEN -2 ELSE 2)
        midY   == (gridSize.height \div 2) + (IF playerIndex % 3 = 0 THEN -2 ELSE 2)
        column == [i \in 1..length |-> Pos(midX, midY + (i - 1))]
    IN  CASE playerIndex = 0 ->
               [body |-> [i \in 1..length |-> Pos(leftX - (i - 1), topY)],
                direction |-> "RIGHT"]
          [] playerIndex = 1 ->
               [body |-> [i \in 1..length |-> Pos(rightX + (i - 1), botY)],
                direction |-> "LEFT"]
          [] playerIndex = 2 ->
               [body |-> [i \in 1..length |-> Pos(rightX + (i - 1), topY)],
                direction |-> "LEFT"]
          [] playerIndex = 3 ->
               [body |-> [i \in 1..length |-> Pos(leftX - (i - 1), botY)],
                direction |-> "RIGHT"]
          [] OTHER ->
               \* fallback placement: a column near the centre, first and
               \* last segment swapped
               [body |-> [i \in 1..length |->
                            IF i = 1 THEN column[length]
                            ELSE IF i = length THEN column[1]
                            ELSE column[i]],
                direction |-> << "UP", "DOWN", "LEFT", "RIGHT" >>[(playerIndex % 4) + 1]]

\* the cells Math.random is taken to produce (see RandSpan)
RandomCells(gridSize) ==
    {Pos(Padding + InitialSnakeLength - 1,
         (Padding + d + gridSize.height) % gridSize.height) :
           d \in ((0 - RandSpan)..RandSpan) \ {0}}
        \cap Cells(gridSize)

\* generateFood: the possible results.  A draw on a free cell is returned at
\* once; after width*height draws that all hit an occupied cell the next
\* draw is returned whatever it is (fallback).
generateFood(gridSize, occupiedPositions) ==
    LET draws == RandomCells(gridSize)
    IN  {[pos |-> c, fallback |-> FALSE] : c \in draws \ occupiedPositions}
          \cup
        (IF draws \cap occupiedPositions # {}
           THEN {[pos |-> c, fallback |-> TRUE] : c \in draws}
           ELSE {})

\* mutant of getNextPosition: a step over the left or top edge lands one
\* past the opposite edge
getNextPosition_WrapOffByOne(head, direction, gridSize) ==
    LET moved == CASE direction = "UP"    -> Pos(head.x, head.y - 1)
                   [] direction = "DOWN"  -> Pos(head.x, head.y + 1)
                   [] direction = "LEFT"  -> Pos(head.x - 1, head.y)
                   [] direction = "RIGHT" -> Pos(head.x + 1, head.y)
        x1 == IF moved.x < 0 THEN gridSize.width ELSE moved.x
        x2 == IF x1 > gridSize.width THEN 0 ELSE x1
        y1 == IF moved.y < 0 THEN gridSize.height ELSE moved.y
        y2 == IF y1 > gridSize.height THEN 0 ELSE y1
    IN  Pos(x2, y2)

getNextPosition(head, direction, gridSize) ==
    LET moved == CASE direction = "UP"    -> Pos(head.x, head.y - 1)
                   [] direction = "DOWN"  -> Pos(head.x, head.y + 1)
                   [] direction = "LEFT"  -> Pos(head.x - 1, head.y)
                   [] direction = "RIGHT" -> Pos(head.x + 1, head.y)
        x1 == IF moved.x < 0 THEN gridSize.width - 1 ELSE moved.x
        x2 == IF x1 >= gridSize.width THEN 0 ELSE x1
        y1 == IF moved.y < 0 THEN gridSize.height - 1 ELSE moved.y
        y2 == IF y1 >= gridSize.height THEN 0 ELSE y1
    IN  Pos(x2, y2)

\* mutant of checkCollision: the moving snake's own tail is not checked
checkCollision_SkipOwnTail(nextHeadPos, allSnakeBodies, movingSnakeIndex) ==
    \E i \in 1..Len(allSnakeBodies) :
        \E j \in 1..Len(allSnakeBodies[i]) :
            /\ ~(i = movingSnakeIndex + 1 /\ j = Len(allSnakeBodies[i]))
            /\ allSnakeBodies[i][j] = nextHeadPos

\* checkCollision: movingSnakeIndex only feeds the unused local isSelf
checkCollision(nextHeadPos, allSnakeBodies, movingSnakeIndex) ==
    \E i \in 1..Len(allSnakeBodies) :
        \E j \in 1..Len(allSnakeBodies[i]) : allSnakeBodies[i][j] = nextHeadPos

\* the value addPlayerToGame returns when it cannot add the player
Null == [null |-> TRUE]

\* initializeGame, lines 130-136: the food arrays the loop can build
RECURSIVE initialFood(_, _, _, _)
initialFood(gridSize, bodyCells, food, n) ==
    IF n = 0 THEN {food}
    ELSE UNION {initialFood(gridSize, bodyCells, Append(food, g.pos), n - 1) :
                  g \in generateFood(gridSize, bodyCells \cup Range(food))}

\* initializeGame: the states it can return (they differ in the food).
\* playerIds is non-empty (the code throws on an empty list; no caller
\* passes one).
initializeGame(playerIds, settings) ==
    LET ids == IF Len(playerIds) > MaxPlayers THEN SubSeq(playerIds, 1, MaxPlayers)
               ELSE playerIds
        snakes == [index \in 1..Len(ids) |->
                     LET placement == getInitialSnakePlacement(index - 1, settings.gridSize,
                                                               settings.initialSnakeLength)
                     IN  [id |-> ids[index],
                          playerIndex |-> index - 1,
                          body |-> placement.body,
                          direction |-> placement.direction,
                          color |-> getPlayerColor(index - 1),
                          score |-> 0,
                          alive |-> TRUE]]
        allBodies == [index \in 1..Len(ids) |-> snakes[index].body]
    IN  {[snakes |-> snakes,
          food |-> food,
          gridSize |-> settings.gridSize,
          gameOver |-> FALSE,
          isPaused |-> FALSE] :
            food \in initialFood(settings.gridSize, FlatCells(allBodies), << >>,
                                 settings.foodCount)}

\* mutant of addPlayerToGame: only the snake bodies, not the food items, are
\* looked at for an occupied spawn
addPlayerToGame_IgnoresFood(gameState, playerId) ==
    LET currentPlayers == Len(gameState.snakes)
        playerIndex == currentPlayers
        placement == getInitialSnakePlacement(playerIndex, gameState.gridSize,
                                              InitialSnakeLength)
        allOccupied == FlatCells([k \in 1..currentPlayers |-> gameState.snakes[k].body])
        startPositionOccupied == Range(placement.body) \cap allOccupied # {}
        newSnake == [id |-> playerId,
                     playerIndex |-> playerIndex,
                     body |-> placement.body,
                     direction |-> placement.direction,
                     color |-> getPlayerColor(playerIndex),
                     score |-> 0,
                     alive |-> TRUE]
    IN  IF currentPlayers >= MaxPlayers THEN Null
        ELSE IF startPositionOccupied THEN Null
        ELSE [gameState EXCEPT !.snakes = Append(@, newSnake)]

\* mutant of addPlayerToGame: the limit on the number of players is not
\* checked
addPlayerToGame_NoLimit(gameState, playerId) ==
    LET currentPlayers == Len(gameState.snakes)
        playerIndex == currentPlayers
        placement == getInitialSnakePlacement(playerIndex, gameState.gridSize,
                                              InitialSnakeLength)
        allOccupied == FlatCells([k \in 1..currentPlayers |-> gameState.snakes[k].body])
                         \cup Range(gameState.food)
        startPositionOccupied == Range(placement.body) \cap allOccupied # {}
        newSnake == [id |-> playerId,
                     playerIndex |-> playerIndex,
                     body |-> placement.body,
                     direction |-> placement.direction,
                     color |-> getPlayerColor(playerIndex),
                     score |-> 0,
                     alive |-> TRUE]
    IN  IF startPositionOccupied THEN Null
        ELSE [gameState EXCEPT !.snakes = Append(@, newSnake)]

\* addPlayerToGame: the new state, or Null
addPlayerToGame(gameState, playerId) ==
    LET currentPlayers == Len(gameState.snakes)
        playerIndex == currentPlayers
        placement == getInitialSnakePlacement(playerIndex, gameState.gridSize,
                                              InitialSnakeLength)
        allOccupied == FlatCells([k \in 1..currentPlayers |-> gameState.snakes[k].body])
                         \cup Range(gameState.food)
        startPositionOccupied == Range(placement.body) \cap allOccupied # {}
        newSnake == [id |-> playerId,
                     playerIndex |-> playerIndex,
                     body |-> placement.body,
                     direction |-> placement.direction,
                     color |-> getPlayerColor(playerIndex),
                     score |-> 0,
                     alive |-> TRUE]
    IN  IF currentPlayers >= MaxPlayers THEN Null
        ELSE IF startPositionOccupied THEN Null
        ELSE [gameState EXCEPT !.snakes = Append(@, newSnake)]

\* mutant of updateSnake: the tail is kept also when no food is eaten
updateSnake_KeepsTail(gameState, i, food) ==
    LET currentSnake == gameState.snakes[i]
        allCurrentBodies == [k \in 1..Len(gameState.snakes) |-> gameState.snakes[k].body]
        nextPos == getNextPosition(currentSnake.body[1], currentSnake.direction,
                                   gameState.gridSize)
        foodIndex == FindIndex(food, LAMBDA f : f = nextPos)
        rest == RemoveAt(food, foodIndex)
        allOccupiedNow == FlatCells(allCurrentBodies) \cup {nextPos} \cup Range(rest)
    IN  IF ~currentSnake.alive
          THEN {[snake |-> currentSnake, food |-> food]}
        ELSE IF checkCollision(nextPos, allCurrentBodies, currentSnake.playerIndex)
          THEN {[snake |-> [currentSnake EXCEPT !.alive = FALSE], food |-> food]}
        ELSE IF foodIndex > 0
          THEN {[snake |-> [currentSnake EXCEPT !.score = @ + 1,
                                                !.body = << nextPos >> \o @],
                 food |-> Append(rest, g.pos)] :
                   g \in generateFood(gameState.gridSize, allOccupiedNow)}
        ELSE {[snake |-> [currentSnake EXCEPT !.body = << nextPos >> \o @],
               food |-> food]}

\* mutant of updateSnake: a dead snake is not skipped
updateSnake_MovesDeadSnakes(gameState, i, food) ==
    LET currentSnake == gameState.snakes[i]
        allCurrentBodies == [k \in 1..Len(gameState.snakes) |-> gameState.snakes[k].body]
        nextPos == getNextPosition(currentSnake.body[1], currentSnake.direction,
                                   gameState.gridSize)
        foodIndex == FindIndex(food, LAMBDA f : f = nextPos)
        rest == RemoveAt(food, foodIndex)
        allOccupiedNow == FlatCells(allCurrentBodies) \cup {nextPos} \cup Range(rest)
    IN  IF checkCollision(nextPos, allCurrentBodies, currentSnake.playerIndex)
          THEN {[snake |-> [currentSnake EXCEPT !.alive = FALSE], food |-> food]}
        ELSE IF foodIndex > 0
          THEN {[snake |-> [currentSnake EXCEPT !.score = @ + 1,
                                                !.body = << nextPos >> \o @],
                 food |-> Append(rest, g.pos)] :
                   g \in generateFood(gameState.gridSize, allOccupiedNow)}
        ELSE {[snake |-> [currentSnake EXCEPT
                            !.body = << nextPos >> \o SubSeq(@, 1, Len(@) - 1)],
               food |-> food]}

\* mutant of updateSnake: eaten food is not replaced
updateSnake_NoNewFood(gameState, i, food) ==
    LET currentSnake == gameState.snakes[i]
        allCurrentBodies == [k \in 1..Len(gameState.snakes) |-> gameState.snakes[k].body]
        nextPos == getNextPosition(currentSnake.body[1], currentSnake.direction,
                                   gameState.gridSize)
        foodIndex == FindIndex(food, LAMBDA f : f = nextPos)
        rest == RemoveAt(food, foodIndex)
    IN  IF ~currentSnake.alive
          THEN {[snake |-> currentSnake, food |-> food]}
        ELSE IF checkCollision(nextPos, allCurrentBodies, currentSnake.playerIndex)
          THEN {[snake |-> [currentSnake EXCEPT !.alive = FALSE], food |-> food]}
        ELSE IF foodIndex > 0
          THEN {[snake |-> [currentSnake EXCEPT !.score = @ + 1,
                                                !.body = << nextPos >> \o @],
                 food |-> rest]}
        ELSE {[snake |-> [currentSnake EXCEPT
                            !.body = << nextPos >> \o SubSeq(@, 1, Len(@) - 1)],
               food |-> food]}

\* updateGame, lines 208-269: one iteration of the loop over the snakes, for
\* the snake at array position i, with the food array as the earlier
\* iterations left it.  The possible results differ in the replacement food.
updateSnake(gameState, i, food) ==
    LET currentSnake == gameState.snakes[i]
        allCurrentBodies == [k \in 1..Len(gameState.snakes) |-> gameState.snakes[k].body]
        nextPos == getNextPosition(currentSnake.body[1], currentSnake.direction,
                                   gameState.gridSize)
        foodIndex == FindIndex(food, LAMBDA f : f = nextPos)
        rest == RemoveAt(food, foodIndex)
        allOccupiedNow == FlatCells(allCurrentBodies) \cup {nextPos} \cup Range(rest)
    IN  IF ~currentSnake.alive
          THEN {[snake |-> currentSnake, food |-> food]}
        ELSE IF checkCollision(nextPos, allCurrentBodies, currentSnake.playerIndex)
          THEN {[snake |-> [currentSnake EXCEPT !.alive = FALSE], food |-> food]}
        ELSE IF foodIndex > 0
          THEN {[snake |-> [currentSnake EXCEPT !.score = @ + 1,
                                                !.body = << nextPos >> \o @],
                 food |-> Append(rest, g.pos)] :
                   g \in generateFood(gameState.gridSize, allOccupiedNow)}
        ELSE {[snake |-> [currentSnake EXCEPT
                            !.body = << nextPos >> \o SubSeq(@, 1, Len(@) - 1)],
               food |-> food]}

\* mutant of updateSnakes: each snake is checked against the bodies as the
\* earlier iterations of the same tick left them
RECURSIVE updateSnakes_SeesMovedSnakes(_, _, _, _, _)
updateSnakes_SeesMovedSnakes(gameState, i, newSnakes, food, seen) ==
    IF i > Len(gameState.snakes)
      THEN {[snakes |-> newSnakes, food |-> food, seen |-> seen]}
    ELSE UNION {updateSnakes_SeesMovedSnakes(
                    [gameState EXCEPT !.snakes[i] = r.snake],
                    i + 1, Append(newSnakes, r.snake), r.food, Append(seen, food)) :
                  r \in updateSnake(gameState, i, food)}

\* the loop of updateGame from array position i on; seen[k] is the food array
\* the iteration for snake k started with
RECURSIVE updateSnakes(_, _, _, _, _)
updateSnakes(gameState, i, newSnakes, food, seen) ==
    IF i > Len(gameState.snakes)
      THEN {[snakes |-> newSnakes, food |-> food, seen |-> seen]}
    ELSE UNION {updateSnakes(gameState, i + 1, Append(newSnakes, r.snake), r.food,
                             Append(seen, food)) :
                  r \in updateSnake(gameState, i, food)}

\* mutant of gameOverAfter: the game is over as soon as one snake is dead
gameOverAfter_AnyDead(gameState, newSnakes) ==
    LET wasAnyAlive == \E k \in 1..Len(gameState.snakes) : gameState.snakes[k].alive
        isAnyDeadNow == \E k \in 1..Len(newSnakes) : ~newSnakes[k].alive
    IN  IF wasAnyAlive THEN isAnyDeadNow ELSE gameState.gameOver

\* lines 276-288 of updateGame
gameOverAfter(gameState, newSnakes) ==
    LET wasAnyAlive == \E k \in 1..Len(gameState.snakes) : gameState.snakes[k].alive
        isAnyAliveNow == \E k \in 1..Len(newSnakes) : newSnakes[k].alive
    IN  IF wasAnyAlive THEN ~isAnyAliveNow ELSE gameState.gameOver

\* mutant of updateGameRuns: a paused game is advanced like a running one
updateGameRuns_IgnoresPause(gameState) ==
    IF gameState.gameOver
      THEN {[state |-> gameState,
             seen |-> [k \in 1..Len(gameState.snakes) |-> gameState.food]]}
    ELSE {[state |-> [gameState EXCEPT !.snakes = r.snakes,
                                       !.food = r.food,
                                       !.gameOver = gameOverAfter(gameState, r.snakes)],
           seen |-> r.seen] :
            r \in updateSnakes(gameState, 1, << >>, gameState.food, << >>)}

\* updateGame: the possible runs, each with the state it returns and the food
\* array every snake's iteration saw
updateGameRuns(gameState) ==
    IF gameState.gameOver \/ gameState.isPaused
      THEN {[state |-> gameState,
             seen |-> [k \in 1..Len(gameState.snakes) |-> gameState.food]]}
    ELSE {[state |-> [gameState EXCEPT !.snakes = r.snakes,
                                       !.food = r.food,
                                       !.gameOver = gameOverAfter(gameState, r.snakes)],
           seen |-> r.seen] :
            r \in updateSnakes(gameState, 1, << >>, gameState.food, << >>)}

\* updateGame: the states it can return
updateGame(gameState) == {r.state : r \in updateGameRuns(gameState)}

Reverse(direction) ==
    CASE direction = "UP" -> "DOWN"
      [] direction = "DOWN" -> "UP"
      [] direction = "LEFT" -> "RIGHT"
      [] direction = "RIGHT" -> "LEFT"

\* mutant of changeDirection: a reversal is refused whatever the length
changeDirection_RefusesAllReversals(gameState, playerId, newDirection) ==
    LET snakeIndex == FindIndex(gameState.snakes, LAMBDA s : s.id = playerId)
        snake == gameState.snakes[snakeIndex]
    IN  IF snakeIndex = 0 THEN gameState
        ELSE IF ~snake.alive THEN gameState
        ELSE IF newDirection = Reverse(snake.direction) THEN gameState
        ELSE IF snake.direction # newDirection
          THEN [gameState EXCEPT !.snakes[snakeIndex].direction = newDirection]
        ELSE gameState

\* mutant of changeDirection: a dead snake is turned like an alive one
changeDirection_TurnsDeadSnakes(gameState, playerId, newDirection) ==
    LET snakeIndex == FindIndex(gameState.snakes, LAMBDA s : s.id = playerId)
        snake == gameState.snakes[snakeIndex]
        currentDirection == snake.direction
    IN  IF snakeIndex = 0 THEN gameState
        ELSE IF /\ Len(snake.body) > 1
                /\ \/ (currentDirection = "UP" /\ newDirection = "DOWN")
                   \/ (currentDirection = "DOWN" /\ newDirection = "UP")
                   \/ (currentDirection = "LEFT" /\ newDirection = "RIGHT")
                   \/ (currentDirection = "RIGHT" /\ newDirection = "LEFT")
          THEN gameState
        ELSE IF snake.direction # newDirection
          THEN [gameState EXCEPT !.snakes[snakeIndex].direction = newDirection]
        ELSE gameState

\* changeDirection; returning gameState itself is returning the input
changeDirection(gameState, playerId, newDirection) ==
    LET snakeIndex == FindIndex(gameState.snakes, LAMBDA s : s.id = playerId)
        snake == gameState.snakes[snakeIndex]
        currentDirection == snake.direction
    IN  IF snakeIndex = 0 THEN gameState
        ELSE IF ~snake.alive THEN gameState
        ELSE IF /\ Len(snake.body) > 1
                /\ \/ (currentDirection = "UP" /\ newDirection = "DOWN")
                   \/ (currentDirection = "DOWN" /\ newDirection = "UP")
                   \/ (currentDirection = "LEFT" /\ newDirection = "RIGHT")
                   \/ (currentDirection = "RIGHT" /\ newDirection = "LEFT")
          THEN gameState
        ELSE IF snake.direction # newDirection
          THEN [gameState EXCEPT !.snakes[snakeIndex].direction = newDirection]
        ELSE gameState

(***************************************************************************)
(* State.                                                                  *)
(***************************************************************************)
VARIABLES
    eState,   \* EngineSpec: the GameState the engine functions are applied to
    ePrev,    \* EngineSpec: the argument of the last engine call
    eOp,      \* EngineSpec: the last engine call, [name, id, direction]
    eSeen,    \* EngineSpec: after updateGame, the food array each snake's iteration saw
    eTicks,   \* EngineSpec: number of updateGame calls so far
    eCalls,   \* EngineSpec: number of changeDirection calls and pause toggles so far
    gfOccupied, \* FoodSpec: occupiedPositions of the generateFood call, as a set
    gfFood,     \* FoodSpec: the local food of generateFood (Null before the first draw)
    gfAttempts, \* FoodSpec: the local attempts of generateFood
    gfReturned, \* FoodSpec: whether generateFood has returned gfFood
    pageGameState,    \* Spec: +page.svelte gameState of every page
    playerInfo,       \* Spec: the playerInfo store of every page (Null when unset)
    connectionStatus, \* Spec: the connectionStatus store of every page
    peers,            \* Spec: the peers store of every page, as the list of peer ids
    connections,      \* Spec: the keys of the host's WebSocketServer.connections
    clientWebSocket,  \* Spec: readyState of every client's socket, "null" when unset
    link,             \* Spec: whether the transport between a client and the host is up
    toHost,           \* Spec: per client, the events queued for the host's socket handlers
    toClient,         \* Spec: per client, the events queued for the client's socket handlers
    ev,               \* Spec: the last step, [name, who]
    ticks,            \* Spec: number of game loop firings so far
    inputs,           \* Spec: number of player intents so far
    connects,         \* Spec: number of connectToHost calls so far
    refused           \* Spec: the clients whose JOIN_REQUEST on their present
                      \* connection the host did not accept (history)

foodVars == << gfOccupied, gfFood, gfAttempts, gfReturned >>

engineVars == << eState, ePrev, eOp, eSeen, eTicks, eCalls,
                 gfOccupied, gfFood, gfAttempts, gfReturned >>

pageVars == << pageGameState, playerInfo, connectionStatus, peers, connections,
               clientWebSocket, link, toHost, toClient, ev, ticks, inputs, connects,
               refused >>

vars == << eState, ePrev, eOp, eSeen, eTicks, eCalls,
           gfOccupied, gfFood, gfAttempts, gfReturned,
           pageGameState, playerInfo, connectionStatus, peers, connections,
           clientWebSocket, link, toHost, toClient, ev, ticks, inputs, connects,
           refused >>

\* the page variables while EngineSpec runs: no page is mounted
NoPages ==
    /\ pageGameState = << >>
    /\ playerInfo = << >>
    /\ connectionStatus = << >>
    /\ peers = << >>
    /\ connections = {}
    /\ clientWebSocket = << >>
    /\ link = << >>
    /\ toHost = << >>
    /\ toClient = << >>
    /\ ev = << >>
    /\ ticks = 0
    /\ inputs = 0
    /\ connects = 0
    /\ refused = {}

\* the variables of FoodSpec while another specification runs: no call of
\* generateFood is followed step by step
NoFoodCall ==
    /\ gfOccupied = {}
    /\ gfFood = Null
    /\ gfAttempts = 0
    /\ gfReturned = FALSE

(***************************************************************************)
(* EngineSpec: the engine functions applied to the states initializeGame   *)
(* returns for one to five player ids on the EngW x EngH grid.             *)
(***************************************************************************)
EnginePlayers ==
    {<< "p0" >>, << "p0", "p1" >>, << "p0", "p1", "p2" >>, << "p0", "p1", "p2", "p3" >>,
     << "p0", "p1", "p2", "p3", "p4" >>}

\* ids passed to changeDirection: the two players and an id no snake has
EngineIds == {"p0", "p1", "nobody"}

EngineLengths == {1, InitialSnakeLength}

EngineSettings ==
    {[gridSize |-> Grid(EngW, EngH), initialSnakeLength |-> len, foodCount |-> FoodCount] :
       len \in EngineLengths}

Call(name, id, direction) == [name |-> name, id |-> id, direction |-> direction]

EngineInit ==
    /\ eState \in UNION {initializeGame(ids, settings) :
                           ids \in EnginePlayers, settings \in EngineSettings}
    /\ ePrev = Null
    /\ eOp = Call("initializeGame", "", "")
    /\ eSeen = << >>
    /\ eTicks = 0
    /\ eCalls = 0
    /\ NoFoodCall
    /\ NoPages

\* updateGame(eState)
ETick ==
    /\ eTicks < MaxEngineTicks
    /\ \E r \in updateGameRuns(eState) :
         /\ eState' = r.state
         /\ eSeen' = r.seen
    /\ ePrev' = eState
    /\ eOp' = Call("updateGame", "", "")
    /\ eTicks' = eTicks + 1
    /\ UNCHANGED eCalls
    /\ UNCHANGED foodVars
    /\ UNCHANGED pageVars

\* changeDirection(eState, id, direction)
EChangeDirection(id, direction) ==
    /\ eCalls < MaxEngineCalls
    /\ eState' = changeDirection(eState, id, direction)
    /\ ePrev' = eState
    /\ eOp' = Call("changeDirection", id, direction)
    /\ eSeen' = << >>
    /\ eCalls' = eCalls + 1
    /\ UNCHANGED eTicks
    /\ UNCHANGED foodVars
    /\ UNCHANGED pageVars

\* the pause toggle of handlePause applied to eState
ETogglePause ==
    /\ eCalls < MaxEngineCalls
    /\ eState' = [eState EXCEPT !.isPaused = ~@]
    /\ ePrev' = eState
    /\ eOp' = Call("togglePause", "", "")
    /\ eSeen' = << >>
    /\ eCalls' = eCalls + 1
    /\ UNCHANGED eTicks
    /\ UNCHANGED foodVars
    /\ UNCHANGED pageVars

\* addPlayerToGame(eState, id); a null result leaves eState as it is, as in
\* the caller (+page.svelte:120-122)
EAddPlayer(id) ==
    /\ eCalls < MaxEngineCalls
    /\ LET newState == addPlayerToGame(eState, id)
       IN  eState' = IF newState # Null THEN newState ELSE eState
    /\ ePrev' = eState
    /\ eOp' = Call("addPlayerToGame", id, "")
    /\ eSeen' = << >>
    /\ eCalls' = eCalls + 1
    /\ UNCHANGED eTicks
    /\ UNCHANGED foodVars
    /\ UNCHANGED pageVars

\* the id addPlayerToGame is called with
EngineJoiner == "late"

EngineNext ==
    \/ ETick
    \/ \E id \in EngineIds, direction \in Directions : EChangeDirection(id, direction)
    \/ ETogglePause
    \/ EAddPlayer(EngineJoiner)

EngineSpec == EngineInit /\ [][EngineNext]_vars

(***************************************************************************)
(* Properties of the engine, stated on the last engine call of EngineSpec: *)
(* ePrev is the argument, eState the result.                               *)
(***************************************************************************)
\* the last call was updateGame
Ticked == eOp.name = "updateGame"

\* the last call was updateGame on a running state (not over, not paused)
TickedRunning == Ticked /\ ~ePrev.gameOver /\ ~ePrev.isPaused

SnakeIndexes(gameState) == 1..Len(gameState.snakes)

\* every cell of every snake body of a state
BodyCells(gameState) ==
    UNION {Range(gameState.snakes[k].body) : k \in SnakeIndexes(gameState)}

\* the cell the head of snake i of gameState moves to, by the rule of the
\* specification: one step in the snake's direction on the torus
StepX(direction) == CASE direction = "LEFT" -> -1 [] direction = "RIGHT" -> 1 [] OTHER -> 0

StepY(direction) == CASE direction = "UP" -> -1 [] direction = "DOWN" -> 1 [] OTHER -> 0

NextHead(gameState, i) ==
    LET snake == gameState.snakes[i]
    IN  Pos((snake.body[1].x + StepX(snake.direction) + gameState.gridSize.width)
               % gameState.gridSize.width,
            (snake.body[1].y + StepY(snake.direction) + gameState.gridSize.height)
               % gameState.gridSize.height)

\* snake i of gameState is alive and its next head cell is on some body
Collides(gameState, i) ==
    gameState.snakes[i].alive /\ NextHead(gameState, i) \in BodyCells(gameState)

\* snake i of gameState is alive and its next head cell is on no body
Moves(gameState, i) ==
    gameState.snakes[i].alive /\ NextHead(gameState, i) \notin BodyCells(gameState)

\* C3: in a tick, every alive snake whose next head cell is on a segment of
\* the pre-tick body of any snake (own or other, alive or dead, any index,
\* the tail included) ends the tick dead, with its body as it was.
C3_CollisionKillsAndFreezes ==
    TickedRunning =>
        \A i \in SnakeIndexes(ePrev) :
            Collides(ePrev, i) =>
                /\ ~eState.snakes[i].alive
                /\ eState.snakes[i].body = ePrev.snakes[i].body

\* C3 witness: a snake of length 3 has just died on its own tail
C3_Witness_OwnTail ==
    /\ TickedRunning
    /\ \E i \in SnakeIndexes(ePrev) :
         /\ Collides(ePrev, i)
         /\ Len(ePrev.snakes[i].body) >= 3
         /\ NextHead(ePrev, i) = ePrev.snakes[i].body[Len(ePrev.snakes[i].body)]
         /\ ~eState.snakes[i].alive

AnyAlive(gameState) == \E k \in SnakeIndexes(gameState) : gameState.snakes[k].alive

\* C4: a tick on a running state sets gameOver exactly when a snake was alive
\* before it and none is after it; a tick on a state with gameOver set
\* returns that state.
C4_GameOverTransition ==
    /\ TickedRunning => (eState.gameOver <=> (AnyAlive(ePrev) /\ ~AnyAlive(eState)))
    /\ (Ticked /\ ePrev.gameOver) => eState = ePrev

\* C4 witness: a tick has been applied to a state an earlier tick ended
C4_Witness_TickAfterGameOver ==
    /\ Ticked
    /\ ePrev.gameOver
    /\ ~AnyAlive(ePrev)
    /\ eTicks >= 2

\* C6: a tick on a paused or finished state returns its argument.
C6_TickNoOpWhenPausedOrOver ==
    (Ticked /\ (ePrev.isPaused \/ ePrev.gameOver)) => eState = ePrev

\* C6 witness: a tick has been applied to a paused state with a snake that
\* would have moved
C6_Witness_PausedTick ==
    /\ Ticked
    /\ ePrev.isPaused
    /\ ~ePrev.gameOver
    /\ \E i \in SnakeIndexes(ePrev) : Moves(ePrev, i)

\* the food array after the iteration of snake i in the last tick
FoodAfter(i) == IF i < Len(ePrev.snakes) THEN eSeen[i + 1] ELSE eState.food

\* snake i grew by its new head and scored
Grew(i) ==
    /\ eState.snakes[i].alive
    /\ eState.snakes[i].body = << NextHead(ePrev, i) >> \o ePrev.snakes[i].body
    /\ eState.snakes[i].score = ePrev.snakes[i].score + 1

\* snake i advanced: new head, tail dropped, same score
Advanced(i) ==
    /\ eState.snakes[i].alive
    /\ eState.snakes[i].body =
          << NextHead(ePrev, i) >> \o
            SubSeq(ePrev.snakes[i].body, 1, Len(ePrev.snakes[i].body) - 1)
    /\ eState.snakes[i].score = ePrev.snakes[i].score

\* C7: in a tick, an alive, non-colliding snake whose next head cell is a
\* food cell of the state the tick is applied to grows by one (new head
\* prepended, tail kept) and scores one, and the number of food items is
\* unchanged.
C7_GrowthOnFood ==
    TickedRunning =>
        \A i \in SnakeIndexes(ePrev) :
            (Moves(ePrev, i) /\ NextHead(ePrev, i) \in Range(ePrev.food)) =>
                /\ Grew(i)
                /\ Len(eState.food) = Len(ePrev.food)

\* C8 as claimed: in a tick, an alive, non-colliding snake whose next head
\* cell is no food cell of the state the tick is applied to advances with
\* length and score unchanged.
C8_NoGrowthWithoutFood_PreTick ==
    TickedRunning =>
        \A i \in SnakeIndexes(ePrev) :
            (Moves(ePrev, i) /\ NextHead(ePrev, i) \notin Range(ePrev.food)) =>
                Advanced(i)

\* C8 as amended: in a tick, an alive, non-colliding snake whose next head
\* cell holds no food when the snake's turn in the loop comes (food placed
\* there earlier in the same tick counts) advances: its new body is the next
\* head followed by its old body without the last segment, and its score and
\* the food array are unchanged by its turn.
C8_NoGrowthWithoutFood ==
    TickedRunning =>
        \A i \in SnakeIndexes(ePrev) :
            (Moves(ePrev, i) /\ NextHead(ePrev, i) \notin Range(eSeen[i])) =>
                /\ Advanced(i)
                /\ FoodAfter(i) = eSeen[i]

\* C8 witness: a snake of length 3 has advanced onto a cell without food
C8_Witness_Advanced ==
    /\ TickedRunning
    /\ \E i \in SnakeIndexes(ePrev) :
         /\ Moves(ePrev, i)
         /\ NextHead(ePrev, i) \notin Range(eSeen[i])
         /\ Len(ePrev.snakes[i].body) = InitialSnakeLength
         /\ Len(eState.snakes[i].body) = InitialSnakeLength

\* C9: the new head of every snake that moved in a tick is one step from the
\* old head in the snake's direction, and a step over an edge comes back in
\* on the opposite edge, on all four edges.
C9_ToroidalWrap ==
    TickedRunning =>
        \A i \in SnakeIndexes(ePrev) :
            Moves(ePrev, i) =>
                LET h == ePrev.snakes[i].body[1]
                    n == eState.snakes[i].body[1]
                    d == ePrev.snakes[i].direction
                    w == ePrev.gridSize.width
                    ht == ePrev.gridSize.height
                IN  CASE d = "LEFT" /\ h.x = 0 -> n = Pos(w - 1, h.y)
                      [] d = "RIGHT" /\ h.x = w - 1 -> n = Pos(0, h.y)
                      [] d = "UP" /\ h.y = 0 -> n = Pos(h.x, ht - 1)
                      [] d = "DOWN" /\ h.y = ht - 1 -> n = Pos(h.x, 0)
                      [] d = "LEFT" -> n = Pos(h.x - 1, h.y)
                      [] d = "RIGHT" -> n = Pos(h.x + 1, h.y)
                      [] d = "UP" -> n = Pos(h.x, h.y - 1)
                      [] d = "DOWN" -> n = Pos(h.x, h.y + 1)

\* snake i of the last tick's argument moved over the edge named by its
\* direction
Wrapped(i, direction) ==
    /\ Moves(ePrev, i)
    /\ ePrev.snakes[i].direction = direction
    /\ CASE direction = "LEFT" -> ePrev.snakes[i].body[1].x = 0
         [] direction = "RIGHT" -> ePrev.snakes[i].body[1].x = ePrev.gridSize.width - 1
         [] direction = "UP" -> ePrev.snakes[i].body[1].y = 0
         [] direction = "DOWN" -> ePrev.snakes[i].body[1].y = ePrev.gridSize.height - 1

\* C9 witness: in one tick one snake has crossed the left edge and another
\* the bottom edge
C9_Witness_Wrapped ==
    /\ TickedRunning
    /\ \E i, j \in SnakeIndexes(ePrev) : Wrapped(i, "LEFT") /\ Wrapped(j, "DOWN")

\* the first snake of gameState with the id, 0 if none
SnakeOf(gameState, id) == FindIndex(gameState.snakes, LAMBDA s : s.id = id)

\* the last call asked the alive snake at position i to reverse
AskedReverse(i) ==
    /\ eOp.name = "changeDirection"
    /\ i = SnakeOf(ePrev, eOp.id)
    /\ i # 0
    /\ ePrev.snakes[i].alive
    /\ eOp.direction = Reverse(ePrev.snakes[i].direction)

\* C10: asked to reverse an alive snake, changeDirection returns its argument
\* exactly when the snake is longer than one segment; a snake of one segment
\* gets the reversed direction and nothing else changes.
C10_ReverseOnlyForSingleSegment ==
    \A i \in 1..MaxPlayers :
        AskedReverse(i) =>
            /\ (eState = ePrev) <=> (Len(ePrev.snakes[i].body) > 1)
            /\ Len(ePrev.snakes[i].body) = 1 =>
                 eState = [ePrev EXCEPT !.snakes[i].direction = eOp.direction]

\* C10 witness: a snake of one segment has been reversed
C10_Witness_SingleSegmentReversed ==
    \E i \in 1..MaxPlayers :
        /\ AskedReverse(i)
        /\ Len(ePrev.snakes[i].body) = 1
        /\ eState.snakes[i].direction = Reverse(ePrev.snakes[i].direction)

\* the last call was changeDirection
Turned == eOp.name = "changeDirection"

\* C11: changeDirection returns its argument when the id is the id of no
\* snake, when the snake with the id is dead, and when the direction asked
\* for is the snake's direction.
C11_ChangeDirectionNoOps ==
    Turned =>
        LET i == SnakeOf(ePrev, eOp.id)
        IN  (\/ i = 0
             \/ ~ePrev.snakes[i].alive
             \/ ePrev.snakes[i].direction = eOp.direction) => eState = ePrev

\* C11 witness: changeDirection has been asked to turn a dead snake to a
\* direction that is neither its own nor the reverse of its own
C11_Witness_DeadSnakeAsked ==
    /\ Turned
    /\ LET i == SnakeOf(ePrev, eOp.id)
       IN  /\ i # 0
           /\ ~ePrev.snakes[i].alive
           /\ eOp.direction \notin {ePrev.snakes[i].direction,
                                    Reverse(ePrev.snakes[i].direction)}

\* the state is the result of initializeGame
Initialized == eOp.name = "initializeGame"

\* the spawn of the claim for playerIndex index (0..3): the head's cell, the
\* direction the body extends in from the head, and the heading
TemplatedSpawn(index, gridSize, length) ==
    LET left   == Padding + length - 1
        right  == gridSize.width - Padding - length
        top    == Padding
        bottom == gridSize.height - 1 - Padding
    IN  CASE index = 0 -> [body |-> [k \in 1..length |-> Pos(left - (k - 1), top)],
                           direction |-> "RIGHT"]
          [] index = 1 -> [body |-> [k \in 1..length |-> Pos(right + (k - 1), bottom)],
                           direction |-> "LEFT"]
          [] index = 2 -> [body |-> [k \in 1..length |-> Pos(right + (k - 1), top)],
                           direction |-> "LEFT"]
          [] index = 3 -> [body |-> [k \in 1..length |-> Pos(left - (k - 1), bottom)],
                           direction |-> "RIGHT"]

\* gameState is what the claim says initializeGame(ids, settings) returns
AsInitialized(gameState, ids, settings) ==
    /\ Len(gameState.snakes) = IF Len(ids) > MaxPlayers THEN MaxPlayers ELSE Len(ids)
    /\ \A i \in SnakeIndexes(gameState) :
         LET snake == gameState.snakes[i]
             spawn == TemplatedSpawn(i - 1, settings.gridSize, settings.initialSnakeLength)
         IN  /\ snake.id = ids[i]
             /\ snake.playerIndex = i - 1
             /\ snake.alive
             /\ snake.score = 0
             /\ Len(snake.body) = settings.initialSnakeLength
             /\ snake.body = spawn.body
             /\ snake.direction = spawn.direction
    /\ Len(gameState.food) = settings.foodCount
    /\ gameState.gridSize = settings.gridSize
    /\ ~gameState.gameOver
    /\ ~gameState.isPaused

\* C24: the state initializeGame returns for a sequence of ids has, at
\* position i, a snake with the i-th id and playerIndex i, alive, with score
\* 0 and a body of initialSnakeLength segments on the spawn of its index;
\* its food has foodCount items and gameOver and isPaused are false.
C24_InitializeGameShape ==
    Initialized =>
        \E ids \in EnginePlayers, settings \in EngineSettings :
            AsInitialized(eState, ids, settings)

\* initializeGame has returned a state with the maximum number of snakes of
\* the full initial length
C24_Witness_FourSnakes ==
    /\ Initialized
    /\ Len(eState.snakes) = MaxPlayers
    /\ Len(eState.snakes[MaxPlayers].body) = InitialSnakeLength

\* C25: the food array of the GameState has foodCount items after
\* initializeGame and after every tick, also when snakes eat and when two
\* snakes move onto the same food cell in one tick.
C25_FoodCountKept == Len(eState.food) = FoodCount

\* a tick in which two snakes moved onto the same food cell
C25_Witness_TwoSnakesOneFood ==
    /\ TickedRunning
    /\ \E i, j \in SnakeIndexes(ePrev) :
         /\ i # j
         /\ Moves(ePrev, i)
         /\ Moves(ePrev, j)
         /\ NextHead(ePrev, i) = NextHead(ePrev, j)
         /\ NextHead(ePrev, i) \in Range(ePrev.food)

\* no cell occurs twice in body
NoSelfOverlap(body) == \A k, l \in 1..Len(body) : body[k] = body[l] => k = l

\* C26: no snake of the GameState, alive or dead, has a cell twice in its
\* body, after initializeGame and after every tick and direction change.
C26_NoSelfOverlap ==
    \A i \in SnakeIndexes(eState) : NoSelfOverlap(eState.snakes[i].body)

\* a snake has turned, grown beyond its initial length and moved on
C26_Witness_GrownAndTurned ==
    /\ Ticked
    /\ eTicks >= 2
    /\ \E i \in SnakeIndexes(eState) :
         /\ eState.snakes[i].alive
         /\ eState.snakes[i].score > 0
         /\ Len(eState.snakes[i].body) > InitialSnakeLength
         /\ \E k, l \in 1..Len(eState.snakes[i].body) :
              /\ eState.snakes[i].body[k].x # eState.snakes[i].body[l].x
              /\ eState.snakes[i].body[k].y # eState.snakes[i].body[l].y

(***************************************************************************)
(* SettingsSpec: the engine functions applied to the states initializeGame *)
(* returns when the initial snake length is also one that does not fit     *)
(* between the paddings of the EngW x EngH grid; initializeGame takes any  *)
(* settings (gameLogic.ts:92-97).                                          *)
(***************************************************************************)
\* the shortest initial length whose row-0 spawn ends beyond the right edge
LongSnakeLength == EngW - Padding + 1

AcceptedSettings ==
    {[gridSize |-> Grid(EngW, EngH), initialSnakeLength |-> len, foodCount |-> FoodCount] :
       len \in {InitialSnakeLength, LongSnakeLength}}

SettingsInit ==
    /\ eState \in UNION {initializeGame(ids, settings) :
                           ids \in EnginePlayers, settings \in AcceptedSettings}
    /\ ePrev = Null
    /\ eOp = Call("initializeGame", "", "")
    /\ eSeen = << >>
    /\ eTicks = 0
    /\ eCalls = 0
    /\ NoFoodCall
    /\ NoPages

SettingsSpec == SettingsInit /\ [][EngineNext]_vars

\* every cell of gameState's snakes and food is on its grid
OnGrid(gameState) ==
    /\ BodyCells(gameState) \subseteq Cells(gameState.gridSize)
    /\ Range(gameState.food) \subseteq Cells(gameState.gridSize)

\* C27: every body segment and every food item of the GameState lies on the
\* grid (0 <= x < width, 0 <= y < height), for every grid size and initial
\* snake length initializeGame accepts, after initializeGame, every tick and
\* every addPlayerToGame.
C27_PositionsOnGrid == OnGrid(eState)

(***************************************************************************)
(* FoodSpec: one call of generateFood (gameLogic.ts:335-362) followed draw *)
(* by draw, on the FoodW x FoodH grid, for every set of occupied cells;    *)
(* Math.random can give any cell of the grid at every draw.                *)
(***************************************************************************)
FoodGrid == Grid(FoodW, FoodH)

\* mutant of maxAttempts: twice the number of cells
maxAttempts_Doubled(gridSize) == 2 * gridSize.width * gridSize.height

\* gameLogic.ts:341, maxAttempts
maxAttempts(gridSize) == gridSize.width * gridSize.height

FoodInit ==
    /\ gfOccupied \in SUBSET Cells(FoodGrid)
    /\ gfFood = Null
    /\ gfAttempts = 0
    /\ gfReturned = FALSE
    /\ eState = Null
    /\ ePrev = Null
    /\ eOp = Call("none", "", "")
    /\ eSeen = << >>
    /\ eTicks = 0
    /\ eCalls = 0
    /\ NoPages

\* one pass of the do-while loop (lines 345-358) in which Math.random gives
\* the cell draw: the early return of line 355 when attempts exceeds
\* maxAttempts, otherwise the loop ends when the cell is not occupied
GenerateFoodDraw(draw) ==
    /\ ~gfReturned
    /\ gfFood' = draw
    /\ gfAttempts' = gfAttempts + 1
    /\ gfReturned' = IF gfAttempts + 1 > maxAttempts(FoodGrid) THEN TRUE
                     ELSE draw \notin gfOccupied
    /\ UNCHANGED gfOccupied
    /\ UNCHANGED << eState, ePrev, eOp, eSeen, eTicks, eCalls >>
    /\ UNCHANGED pageVars

FoodNext == \E draw \in Cells(FoodGrid) : GenerateFoodDraw(draw)

\* the call goes on as long as it has not returned
FoodSpec == FoodInit /\ [][FoodNext]_vars /\ WF_vars(FoodNext)

\* generateFood never makes more than width*height + 1 draws, and it returns
\* an occupied cell only with that last draw
FoodDrawsBounded ==
    /\ gfAttempts <= FoodW * FoodH + 1
    /\ gfAttempts = FoodW * FoodH + 1 => gfReturned
    /\ gfReturned => gfFood \in Cells(FoodGrid)
    /\ (gfReturned /\ gfFood \in gfOccupied) => gfAttempts = FoodW * FoodH + 1

\* C31: generateFood terminates: it returns a cell after at most
\* width*height + 1 draws, also when every cell of the grid is occupied, and
\* the cell it returns is an occupied one only when the width*height draws
\* before the last all gave occupied cells.
C31_GenerateFoodTerminates == []FoodDrawsBounded /\ <>gfReturned

\* generateFood has returned an occupied cell of a grid with no free cell
C31_Witness_FullGridFallback ==
    /\ gfReturned
    /\ gfOccupied = Cells(FoodGrid)
    /\ gfFood \in gfOccupied
    /\ gfAttempts = FoodW * FoodH + 1

\* the direction of the last move of snake i of gameState (two segments or
\* more): the step that leads from its second segment to its head
LastMove(gameState, i) ==
    CHOOSE d \in Directions :
        getNextPosition(gameState.snakes[i].body[2], d, gameState.gridSize)
            = gameState.snakes[i].body[1]

\* C35: the direction a tick moves an alive snake of two or more segments in
\* is never the reverse of the snake's last move, whatever direction changes
\* were accepted since that move; no such snake steps onto its own second
\* segment.
C35_NeverReversesLastMove ==
    TickedRunning =>
        \A i \in SnakeIndexes(ePrev) :
            (ePrev.snakes[i].alive /\ Len(ePrev.snakes[i].body) >= 2) =>
                /\ ePrev.snakes[i].direction # Reverse(LastMove(ePrev, i))
                /\ NextHead(ePrev, i) # ePrev.snakes[i].body[2]

\* snake i ate in the last tick
Ate(i) == eState.snakes[i].score = ePrev.snakes[i].score + 1

\* the food left when snake i had eaten in the last tick, before the
\* replacement was generated
FoodLeft(i) == RemoveAt(eSeen[i], FindIndex(eSeen[i], LAMBDA f : f = NextHead(ePrev, i)))

\* the replacement generated when snake i ate in the last tick
Replacement(i) == FoodAfter(i)[Len(FoodAfter(i))]

\* the replacement for snake i is one generateFood returns without its
\* fallback
NoFallback(i) ==
    [pos |-> Replacement(i), fallback |-> FALSE]
        \in generateFood(ePrev.gridSize,
                         BodyCells(ePrev) \cup {NextHead(ePrev, i)} \cup Range(FoodLeft(i)))

\* the number of items of a food array on cell c
ItemsOn(food, c) == Cardinality({k \in 1..Len(food) : food[k] = c})

\* C39: a replacement food item generated in a tick without the fallback of
\* generateFood lies, in the state the tick returns, on no cell of a snake
\* body, the new heads of the snakes moved in the tick included, and on the
\* cell of no other food item.
C39_ReplacementOnFreeCell ==
    TickedRunning =>
        \A i \in SnakeIndexes(ePrev) :
            (Ate(i) /\ NoFallback(i) /\ Replacement(i) \in Range(eState.food)) =>
                /\ Replacement(i) \notin BodyCells(eState)
                /\ ItemsOn(eState.food, Replacement(i)) = 1

(***************************************************************************)
(* Spec: one host page and the client pages, each running +page.svelte     *)
(* with its own stores and its own GameBoard.  A client's id (the playerId *)
(* store, kept across reconnects) is the client's name.                    *)
(*                                                                         *)
(* Besides the budgets MaxTicks, MaxInputs and MaxConnects, the schedules  *)
(* of Spec are bounded in three ways: a sender waits while a queue it      *)
(* would write to holds MaxQueue events (HostCanSend, ClientCanSend); a    *)
(* client calls connectToHost only while no other client is joining        *)
(* (Joining); and a connection fails only after the close events of the    *)
(* previous failure have been handled (ConnectionLost).                    *)
(***************************************************************************)
Host == "H"

Clients == {"A", "B"}

\* the clients are alike: the first connectToHost of a behaviour is this one's
FirstClient == "A"

Pages == {Host} \cup Clients

\* the peer id under which the host's acceptor registers the connection of
\* client c (the argument of WebSocketServer.addConnection): the client's id
PeerIdOf(c) == c

\* DEFAULT_SETTINGS, on the grid and food count of the model
DefaultSettings ==
    [gridSize |-> Grid(GridW, GridH),
     initialSnakeLength |-> InitialSnakeLength,
     foodCount |-> FoodCount]

\* +page.svelte:52 and :75, initializeGame(['placeholder_id'])
Placeholder == initializeGame(<< "placeholder_id" >>, DefaultSettings)

\* messages (types.ts PeerMessage); "CLOSE" is the close event of a socket,
\* "ERROR" the error event of a socket together with the close event that
\* follows it in the same task
StateUpdate(gameState) == [type |-> "STATE_UPDATE", data |-> gameState]

DirectionChange(id, direction) ==
    [type |-> "DIRECTION_CHANGE", data |-> [id |-> id, direction |-> direction]]

JoinRequest(id) == [type |-> "JOIN_REQUEST", data |-> [id |-> id]]

JoinAccepted(info) == [type |-> "JOIN_ACCEPTED", data |-> info]

Restart == [type |-> "RESTART"]

Close == [type |-> "CLOSE"]

Error == [type |-> "ERROR"]

Event(name, who) == [name |-> name, who |-> who]

\* +page.svelte:59 and :72, gameActive as the two subscriptions keep it
GameActive(p) == connectionStatus[p] = "connected" /\ playerInfo[p] # Null

\* currentInfo?.isHost
IsHost(p) == playerInfo[p] # Null /\ playerInfo[p].isHost

\* WebSocketServer.broadcast over the connections conns: the message goes to
\* every connection whose socket is open
broadcast(conns, queues, message) ==
    [c \in Clients |->
       IF c \in conns /\ link[c] THEN Append(queues[c], message) ELSE queues[c]]

\* broadcastGameState called on page p: only a host sends
broadcastGameState(p, gameState) ==
    IF IsHost(p) THEN broadcast(connections, toClient, StateUpdate(gameState)) ELSE toClient

\* WebSocketServer.sendTo: the message goes to peerId if its connection
\* exists and its socket is open
sendTo(queues, peerId, message) ==
    IF peerId \in connections /\ link[peerId]
      THEN [queues EXCEPT ![peerId] = Append(@, message)]
      ELSE queues

\* sendToHost called on client page p
sendToHost(p, message) ==
    IF clientWebSocket[p] = "OPEN" /\ link[p]
      THEN [toHost EXCEPT ![p] = Append(@, message)]
      ELSE toHost

Init ==
    /\ pageGameState \in [Pages -> Placeholder]
    /\ playerInfo = [p \in Pages |-> Null]
    /\ connectionStatus = [p \in Pages |-> "disconnected"]
    /\ peers = [p \in Pages |-> << >>]
    /\ connections = {}
    /\ clientWebSocket = [c \in Clients |-> "null"]
    /\ link = [c \in Clients |-> FALSE]
    /\ toHost = [c \in Clients |-> << >>]
    /\ toClient = [c \in Clients |-> << >>]
    /\ ev = Event("mount", "")
    /\ ticks = 0
    /\ inputs = 0
    /\ connects = 0
    /\ refused = {}
    /\ eState = Null
    /\ ePrev = Null
    /\ eOp = Call("none", "", "")
    /\ eSeen = << >>
    /\ eTicks = 0
    /\ eCalls = 0
    /\ NoFoodCall

\* initializeHost on the host page.  The stores go connecting ->
\* disconnected (cleanupConnections) -> connected; playerInfo was null and
\* stays null until hostInfo is set, so no subscription resets gameState.
InitializeHost ==
    /\ connectionStatus[Host] # "connected"
    /\ playerInfo' = [playerInfo EXCEPT ![Host] =
                        [id |-> Host, isHost |-> TRUE, playerIndex |-> 0,
                         color |-> "var(--color-snake1)"]]
    /\ connectionStatus' = [connectionStatus EXCEPT ![Host] = "connected"]
    /\ peers' = [peers EXCEPT ![Host] = << >>]
    /\ connections' = {}
    /\ ev' = Event("initializeHost", Host)
    /\ UNCHANGED << pageGameState, clientWebSocket, link, toHost, toClient,
                    ticks, inputs, connects >>
    /\ UNCHANGED refused
    /\ UNCHANGED engineVars

\* client k is between its connectToHost call and the arrival of the host's
\* answer to its JOIN_REQUEST
Joining(k) ==
    \/ clientWebSocket[k] = "CONNECTING"
    \/ \E i \in 1..Len(toHost[k]) : toHost[k][i].type = "JOIN_REQUEST"
    \/ \E i \in 1..Len(toClient[k]) : toClient[k][i].type = "JOIN_ACCEPTED"

\* connectToHost on client page c, up to the creation of the socket.  The
\* status is set to connecting and cleanupConnections sets it back to
\* disconnected at once; playerInfo is null before and after.  A socket of
\* an earlier call that has not opened yet is closed by cleanupConnections
\* with its handlers removed, and the new socket takes its place.
ConnectToHost(c) ==
    /\ connects < MaxConnects
    /\ ticks + inputs + connects < MaxEvents
    /\ c # FirstClient => connects > 0
    /\ \A k \in Clients \ {c} : ~Joining(k)
    /\ connectionStatus[c] \notin {"connected", "connecting"}
    /\ clientWebSocket[c] \in {"null", "CONNECTING"}
    /\ IsHost(Host)
    /\ connectionStatus' = [connectionStatus EXCEPT ![c] = "disconnected"]
    /\ playerInfo' = [playerInfo EXCEPT ![c] = Null]
    /\ peers' = [peers EXCEPT ![c] = << >>]
    /\ clientWebSocket' = [clientWebSocket EXCEPT ![c] = "CONNECTING"]
    /\ connects' = connects + 1
    /\ ev' = Event("connectToHost", c)
    /\ UNCHANGED << pageGameState, connections, link, toHost, toClient, ticks, inputs >>
    /\ refused' = refused \ {c}
    /\ UNCHANGED engineVars

\* The connection of client c is established: the host registers it
\* (WebSocketServer.addConnection, peerConnection.ts:56-61, and the
\* onConnection callback, :162-168) and the client's onopen handler runs
\* (:231-247).
SocketOpens(c) ==
    /\ clientWebSocket[c] = "CONNECTING"
    /\ connections' = connections \cup {PeerIdOf(c)}
    /\ peers' = [peers EXCEPT ![Host] = Append(@, PeerIdOf(c)), ![c] = << "hostIp" >>]
    /\ clientWebSocket' = [clientWebSocket EXCEPT ![c] = "OPEN"]
    /\ link' = [link EXCEPT ![c] = TRUE]
    /\ connectionStatus' = [connectionStatus EXCEPT ![c] = "connected"]
    /\ toHost' = [toHost EXCEPT ![c] = Append(@, JoinRequest(c))]
    /\ ev' = Event("onopen", c)
    /\ UNCHANGED << pageGameState, playerInfo, toClient, ticks, inputs, connects >>
    /\ UNCHANGED refused
    /\ UNCHANGED engineVars

\* The transport between client c and the host fails: what was in flight is
\* lost and both sockets get their close event; the host's socket may get
\* an error event first.  Failures come one at a time: the close events of
\* the last one have been handled.
ConnectionLost(c) ==
    /\ link[c]
    /\ \A k \in Clients : {Close, Error} \cap (Range(toHost[k]) \cup Range(toClient[k])) = {}
    /\ link' = [link EXCEPT ![c] = FALSE]
    /\ \E hostEvent \in {Close, Error} :
         toHost' = [toHost EXCEPT ![c] =
                      Append(SelectSeq(@, LAMBDA m : m.type = "CLOSE"), hostEvent)]
    /\ toClient' = [toClient EXCEPT ![c] = << Close >>]
    /\ ev' = Event("connectionLost", c)
    /\ UNCHANGED << pageGameState, playerInfo, connectionStatus, peers, connections,
                    clientWebSocket, ticks, inputs, connects >>
    /\ UNCHANGED refused
    /\ UNCHANGED engineVars

\* the budget of player intents is not used up
InputsLeft ==
    inputs < MaxInputs + (IF pageGameState[Host].isPaused THEN MaxPausedInputs ELSE 0)

\* every open connection of the host has room for the messages of one step
\* (at most two: JOIN_ACCEPTED and STATE_UPDATE)
HostCanSend ==
    \A c \in Clients : (c \in connections /\ link[c]) => Len(toClient[c]) + 2 <= MaxQueue

\* the connection of client page p has room for one message
ClientCanSend(p) == p \in Clients => Len(toHost[p]) < MaxQueue

\* the head of the events queued for the host's socket of client c
HostGets(c, type) ==
    /\ toHost[c] # << >>
    /\ Head(toHost[c]).type = type
    /\ IsHost(Host)
    /\ HostCanSend

\* handleRestart on page p (+page.svelte:246-270): the new values of the
\* page's gameState and of the queues, as pairs
handleRestart(p) ==
    IF IsHost(p)
      THEN {[state |-> s, toClient |-> broadcastGameState(p, s), toHost |-> toHost] :
              s \in initializeGame(<< playerInfo[p].id >> \o peers[p], DefaultSettings)}
      ELSE {[state |-> pageGameState[p], toClient |-> toClient,
             toHost |-> sendToHost(p, Restart)]}

\* mutant of HostOnJoinRequest: the state is broadcast also when the player
\* could not be added
HostOnJoinRequest_BroadcastsOnRefusal(c) ==
    /\ HostGets(c, "JOIN_REQUEST")
    /\ LET joiningPlayerId == Head(toHost[c]).data.id
           newState == addPlayerToGame(pageGameState[Host], joiningPlayerId)
           addedSnake == newState.snakes[FindIndex(newState.snakes,
                                                   LAMBDA s : s.id = joiningPlayerId)]
           joiningPlayerInfo == [id |-> joiningPlayerId,
                                 isHost |-> FALSE,
                                 playerIndex |-> addedSnake.playerIndex,
                                 color |-> addedSnake.color]
       IN  IF newState # Null
             THEN /\ pageGameState' = [pageGameState EXCEPT ![Host] = newState]
                  /\ toClient' = broadcast(connections,
                                           sendTo(toClient, c, JoinAccepted(joiningPlayerInfo)),
                                           StateUpdate(newState))
                  /\ refused' = refused \ {c}
             ELSE /\ UNCHANGED pageGameState
                  /\ toClient' = broadcastGameState(Host, pageGameState[Host])
                  /\ refused' = refused \cup {c}
    /\ toHost' = [toHost EXCEPT ![c] = Tail(@)]
    /\ ev' = Event("JOIN_REQUEST", c)
    /\ UNCHANGED << playerInfo, connectionStatus, peers, connections, clientWebSocket,
                    link, ticks, inputs, connects >>
    /\ UNCHANGED engineVars

\* +page.svelte:115-143, the host's handler of JOIN_REQUEST from peer c
HostOnJoinRequest(c) ==
    /\ HostGets(c, "JOIN_REQUEST")
    /\ LET joiningPlayerId == Head(toHost[c]).data.id
           newState == addPlayerToGame(pageGameState[Host], joiningPlayerId)
           addedSnake == newState.snakes[FindIndex(newState.snakes,
                                                   LAMBDA s : s.id = joiningPlayerId)]
           joiningPlayerInfo == [id |-> joiningPlayerId,
                                 isHost |-> FALSE,
                                 playerIndex |-> addedSnake.playerIndex,
                                 color |-> addedSnake.color]
       IN  IF newState # Null
             THEN /\ pageGameState' = [pageGameState EXCEPT ![Host] = newState]
                  /\ toClient' = broadcast(connections,
                                           sendTo(toClient, c, JoinAccepted(joiningPlayerInfo)),
                                           StateUpdate(newState))
                  /\ refused' = refused \ {c}
             ELSE /\ UNCHANGED << pageGameState, toClient >>
                  /\ refused' = refused \cup {c}
    /\ toHost' = [toHost EXCEPT ![c] = Tail(@)]
    /\ ev' = Event("JOIN_REQUEST", c)
    /\ UNCHANGED << playerInfo, connectionStatus, peers, connections, clientWebSocket,
                    link, ticks, inputs, connects >>
    /\ UNCHANGED engineVars

\* mutant of HostOnDirectionChange: the state is broadcast whether or not
\* changeDirection changed it
HostOnDirectionChange_AlwaysBroadcasts(c) ==
    /\ HostGets(c, "DIRECTION_CHANGE")
    /\ LET message == Head(toHost[c])
           newState == changeDirection(pageGameState[Host], message.data.id,
                                       message.data.direction)
       IN  /\ pageGameState' = [pageGameState EXCEPT ![Host] = newState]
           /\ toClient' = broadcastGameState(Host, newState)
    /\ toHost' = [toHost EXCEPT ![c] = Tail(@)]
    /\ ev' = Event("DIRECTION_CHANGE", c)
    /\ UNCHANGED << playerInfo, connectionStatus, peers, connections, clientWebSocket,
                    link, ticks, inputs, connects >>
    /\ UNCHANGED refused
    /\ UNCHANGED engineVars

\* +page.svelte:101-113, the host's handler of DIRECTION_CHANGE from peer c
HostOnDirectionChange(c) ==
    /\ HostGets(c, "DIRECTION_CHANGE")
    /\ LET message == Head(toHost[c])
           newState == changeDirection(pageGameState[Host], message.data.id,
                                       message.data.direction)
       IN  IF newState # pageGameState[Host]
             THEN /\ pageGameState' = [pageGameState EXCEPT ![Host] = newState]
                  /\ toClient' = broadcastGameState(Host, newState)
             ELSE UNCHANGED << pageGameState, toClient >>
    /\ toHost' = [toHost EXCEPT ![c] = Tail(@)]
    /\ ev' = Event("DIRECTION_CHANGE", c)
    /\ UNCHANGED << playerInfo, connectionStatus, peers, connections, clientWebSocket,
                    link, ticks, inputs, connects >>
    /\ UNCHANGED refused
    /\ UNCHANGED engineVars

\* +page.svelte:148-154, the host's handler of RESTART from peer c
HostOnRestart(c) ==
    /\ HostGets(c, "RESTART")
    /\ \E r \in handleRestart(Host) :
         /\ pageGameState' = [pageGameState EXCEPT ![Host] = r.state]
         /\ toClient' = r.toClient
    /\ toHost' = [toHost EXCEPT ![c] = Tail(@)]
    /\ ev' = Event("RESTART", c)
    /\ UNCHANGED << playerInfo, connectionStatus, peers, connections, clientWebSocket,
                    link, ticks, inputs, connects >>
    /\ UNCHANGED refused
    /\ UNCHANGED engineVars

\* The close event of the host's socket of peer c: ws.onclose
\* (peerConnection.ts:74-78), the onClose callback (:174-178) and the page's
\* handler of the PEER_DISCONNECT it raises (+page.svelte:157-173).
HostOnClose(c) ==
    /\ HostGets(c, "CLOSE")
    /\ connections' = connections \ {c}
    /\ peers' = [peers EXCEPT ![Host] = SelectSeq(@, LAMBDA peer : peer # c)]
    /\ LET gameState == pageGameState[Host]
           snakeIndex == FindIndex(gameState.snakes, LAMBDA s : s.id = c)
           newState == [gameState EXCEPT !.snakes[snakeIndex].alive = FALSE]
       IN  IF snakeIndex > 0 /\ gameState.snakes[snakeIndex].alive
             THEN /\ pageGameState' = [pageGameState EXCEPT ![Host] = newState]
                  /\ toClient' = broadcast(connections \ {c}, toClient,
                                           StateUpdate(newState))
             ELSE UNCHANGED << pageGameState, toClient >>
    /\ toHost' = [toHost EXCEPT ![c] = Tail(@)]
    /\ ev' = Event("PEER_DISCONNECT", c)
    /\ UNCHANGED << playerInfo, connectionStatus, clientWebSocket, link,
                    ticks, inputs, connects >>
    /\ UNCHANGED refused
    /\ UNCHANGED engineVars

\* mutant of onPeerDisconnect: the snake marked dead is the first alive one
\* with the id
onPeerDisconnect_FirstAliveSnake(conns, gameState, queues, disconnectedPeerId) ==
    LET snakeIndex == FindIndex(gameState.snakes,
                                LAMBDA s : s.id = disconnectedPeerId /\ s.alive)
        newState == [gameState EXCEPT !.snakes[snakeIndex].alive = FALSE]
    IN  IF snakeIndex > 0 /\ gameState.snakes[snakeIndex].alive
          THEN [state |-> newState,
                toClient |-> broadcast(conns, queues, StateUpdate(newState))]
          ELSE [state |-> gameState, toClient |-> queues]

\* +page.svelte:157-173, the host page's handler of PEER_DISCONNECT for peer
\* disconnectedPeerId, on the state gameState with the connections conns and
\* the queues to the clients: the new state and the new queues
onPeerDisconnect(conns, gameState, queues, disconnectedPeerId) ==
    LET snakeIndex == FindIndex(gameState.snakes, LAMBDA s : s.id = disconnectedPeerId)
        newState == [gameState EXCEPT !.snakes[snakeIndex].alive = FALSE]
    IN  IF snakeIndex > 0 /\ gameState.snakes[snakeIndex].alive
          THEN [state |-> newState,
                toClient |-> broadcast(conns, queues, StateUpdate(newState))]
          ELSE [state |-> gameState, toClient |-> queues]

\* The error event of the host's socket of peer c and the close event that
\* follows it.  ws.onerror (peerConnection.ts:80-85) deletes the connection
\* and calls the onError callback (:180-185) and the onClose callback
\* (:174-178); ws.onclose (:74-78) deletes it again and calls the onClose
\* callback: the page handles PEER_DISCONNECT for c three times in a row.
HostOnError(c) ==
    /\ HostGets(c, "ERROR")
    /\ connections' = connections \ {c}
    /\ peers' = [peers EXCEPT ![Host] = SelectSeq(@, LAMBDA peer : peer # c)]
    /\ LET first == onPeerDisconnect(connections \ {c}, pageGameState[Host], toClient, c)
           second == onPeerDisconnect(connections \ {c}, first.state, first.toClient, c)
           third == onPeerDisconnect(connections \ {c}, second.state, second.toClient, c)
       IN  /\ pageGameState' = [pageGameState EXCEPT ![Host] = third.state]
           /\ toClient' = third.toClient
    /\ toHost' = [toHost EXCEPT ![c] = Tail(@)]
    /\ ev' = Event("PEER_ERROR", c)
    /\ UNCHANGED << playerInfo, connectionStatus, clientWebSocket, link,
                    ticks, inputs, connects >>
    /\ UNCHANGED refused
    /\ UNCHANGED engineVars

\* A frame of type STATE_UPDATE arrives at the host from the peer of client
\* c: ws.onmessage (peerConnection.ts:64-72) parses whatever a connected
\* peer sends and hands it to the page.  The payload is the GameState of the
\* sending page.
PeerSendsStateUpdate(c) ==
    /\ InputsLeft
    /\ ticks + inputs + connects < MaxEvents
    /\ clientWebSocket[c] = "OPEN"
    /\ link[c]
    /\ ClientCanSend(c)
    /\ toHost' = [toHost EXCEPT ![c] = Append(@, StateUpdate(pageGameState[c]))]
    /\ inputs' = inputs + 1
    /\ ev' = Event("peerSendsStateUpdate", c)
    /\ UNCHANGED << pageGameState, playerInfo, connectionStatus, peers, connections,
                    clientWebSocket, link, toClient, ticks, connects >>
    /\ UNCHANGED refused
    /\ UNCHANGED engineVars

\* mutant of HostOnStateUpdate: the host adopts the state it receives
HostOnStateUpdate_Adopts(c) ==
    /\ HostGets(c, "STATE_UPDATE")
    /\ pageGameState' = [pageGameState EXCEPT ![Host] = Head(toHost[c]).data]
    /\ toHost' = [toHost EXCEPT ![c] = Tail(@)]
    /\ ev' = Event("STATE_UPDATE", Host)
    /\ UNCHANGED << playerInfo, connectionStatus, peers, connections, clientWebSocket,
                    link, toClient, ticks, inputs, connects >>
    /\ UNCHANGED refused
    /\ UNCHANGED engineVars

\* +page.svelte:91-99, the handler of STATE_UPDATE on the host page, the
\* message coming from peer c
HostOnStateUpdate(c) ==
    /\ HostGets(c, "STATE_UPDATE")
    /\ pageGameState' = [pageGameState EXCEPT ![Host] =
                           IF ~IsHost(Host) THEN Head(toHost[c]).data ELSE @]
    /\ toHost' = [toHost EXCEPT ![c] = Tail(@)]
    /\ ev' = Event("STATE_UPDATE", Host)
    /\ UNCHANGED << playerInfo, connectionStatus, peers, connections, clientWebSocket,
                    link, toClient, ticks, inputs, connects >>
    /\ UNCHANGED refused
    /\ UNCHANGED engineVars

\* the head of the events queued for client c's socket
ClientGets(c, type) ==
    /\ toClient[c] # << >>
    /\ Head(toClient[c]).type = type
    /\ clientWebSocket[c] = "OPEN"

\* clientWebSocket.onmessage for JOIN_ACCEPTED (peerConnection.ts:249-263);
\* the page's handler has no case for the type
ClientOnJoinAccepted(c) ==
    /\ ClientGets(c, "JOIN_ACCEPTED")
    /\ playerInfo' = [playerInfo EXCEPT ![c] = Head(toClient[c]).data]
    /\ toClient' = [toClient EXCEPT ![c] = Tail(@)]
    /\ ev' = Event("JOIN_ACCEPTED", c)
    /\ UNCHANGED << pageGameState, connectionStatus, peers, connections, clientWebSocket,
                    link, toHost, ticks, inputs, connects >>
    /\ UNCHANGED refused
    /\ UNCHANGED engineVars

\* +page.svelte:91-99, the handler of STATE_UPDATE on client page c
ClientOnStateUpdate(c) ==
    /\ ClientGets(c, "STATE_UPDATE")
    /\ pageGameState' = [pageGameState EXCEPT ![c] =
                           IF ~IsHost(c) THEN Head(toClient[c]).data ELSE @]
    /\ toClient' = [toClient EXCEPT ![c] = Tail(@)]
    /\ ev' = Event("STATE_UPDATE", c)
    /\ UNCHANGED << playerInfo, connectionStatus, peers, connections, clientWebSocket,
                    link, toHost, ticks, inputs, connects >>
    /\ UNCHANGED refused
    /\ UNCHANGED engineVars

\* clientWebSocket.onclose (peerConnection.ts:274-285).  Setting the status
\* to disconnected makes the page clear playerInfo (+page.svelte:66), and if
\* that changes playerInfo the page resets gameState (+page.svelte:73-75).
ClientOnClose(c) ==
    /\ ClientGets(c, "CLOSE")
    /\ connectionStatus' = [connectionStatus EXCEPT ![c] = "disconnected"]
    /\ clientWebSocket' = [clientWebSocket EXCEPT ![c] = "null"]
    /\ peers' = [peers EXCEPT ![c] = << >>]
    /\ playerInfo' = [playerInfo EXCEPT ![c] = Null]
    /\ IF playerInfo[c] # Null
         THEN \E s \in Placeholder : pageGameState' = [pageGameState EXCEPT ![c] = s]
         ELSE UNCHANGED pageGameState
    /\ toClient' = [toClient EXCEPT ![c] = Tail(@)]
    /\ ev' = Event("onclose", c)
    /\ UNCHANGED << connections, link, toHost, ticks, inputs, connects >>
    /\ refused' = refused \ {c}
    /\ UNCHANGED engineVars

\* mutant of GameLoop: the state broadcast is the one before the tick
GameLoop_BroadcastsOldState(p) ==
    /\ ticks < MaxTicks
    /\ ticks + inputs + connects < MaxEvents
    /\ GameActive(p)
    /\ IsHost(p) => HostCanSend
    /\ ~pageGameState[p].gameOver
    /\ ~pageGameState[p].isPaused
    /\ \E updatedState \in updateGame(pageGameState[p]) :
         /\ pageGameState' = [pageGameState EXCEPT ![p] = updatedState]
         /\ toClient' = broadcastGameState(p, pageGameState[p])
    /\ ticks' = ticks + 1
    /\ ev' = Event("gameLoop", p)
    /\ UNCHANGED << playerInfo, connectionStatus, peers, connections, clientWebSocket,
                    link, toHost, inputs, connects >>
    /\ UNCHANGED refused
    /\ UNCHANGED engineVars

\* GameBoard.svelte:55-70, one firing of the game loop of page p, with
\* handleHostGameUpdate (+page.svelte:199-206) as its onUpdate.  The board is
\* mounted while the page is connected and gameActive.
GameLoop(p) ==
    /\ ticks < MaxTicks
    /\ ticks + inputs + connects < MaxEvents
    /\ GameActive(p)
    /\ IsHost(p) => HostCanSend
    /\ ~pageGameState[p].gameOver
    /\ ~pageGameState[p].isPaused
    /\ \E updatedState \in updateGame(pageGameState[p]) :
         /\ pageGameState' = [pageGameState EXCEPT ![p] = updatedState]
         /\ toClient' = broadcastGameState(p, updatedState)
    /\ ticks' = ticks + 1
    /\ ev' = Event("gameLoop", p)
    /\ UNCHANGED << playerInfo, connectionStatus, peers, connections, clientWebSocket,
                    link, toHost, inputs, connects >>
    /\ UNCHANGED refused
    /\ UNCHANGED engineVars

\* +page.svelte:209-223, handleDirectionChange on page p
HandleDirectionChange(p, direction) ==
    /\ InputsLeft
    /\ ticks + inputs + connects < MaxEvents
    /\ GameActive(p)
    /\ ClientCanSend(p)
    /\ ~pageGameState[p].gameOver
    /\ ~pageGameState[p].isPaused
    /\ pageGameState' = [pageGameState EXCEPT ![p] =
                           changeDirection(@, playerInfo[p].id, direction)]
    /\ toHost' = IF ~IsHost(p) THEN sendToHost(p, DirectionChange(p, direction))
                 ELSE toHost
    /\ inputs' = inputs + 1
    /\ ev' = Event("handleDirectionChange", p)
    /\ UNCHANGED << playerInfo, connectionStatus, peers, connections, clientWebSocket,
                    link, toClient, ticks, connects >>
    /\ UNCHANGED refused
    /\ UNCHANGED engineVars

\* mutant of HandlePause: a client page toggles the flag of its replica
HandlePause_OnAnyPage(p) ==
    /\ InputsLeft
    /\ ticks + inputs + connects < MaxEvents
    /\ GameActive(p)
    /\ IsHost(p) => HostCanSend
    /\ ~pageGameState[p].gameOver
    /\ LET newState == [pageGameState[p] EXCEPT !.isPaused = ~@]
       IN  /\ pageGameState' = [pageGameState EXCEPT ![p] = newState]
           /\ toClient' = broadcastGameState(p, newState)
    /\ inputs' = inputs + 1
    /\ ev' = Event("handlePause", p)
    /\ UNCHANGED << playerInfo, connectionStatus, peers, connections, clientWebSocket,
                    link, toHost, ticks, connects >>
    /\ UNCHANGED refused
    /\ UNCHANGED engineVars

\* +page.svelte:226-243, handlePause on page p
HandlePause(p) ==
    /\ InputsLeft
    /\ ticks + inputs + connects < MaxEvents
    /\ GameActive(p)
    /\ IsHost(p) => HostCanSend
    /\ ~pageGameState[p].gameOver
    /\ LET newState == [pageGameState[p] EXCEPT !.isPaused = ~@]
       IN  IF IsHost(p)
             THEN /\ pageGameState' = [pageGameState EXCEPT ![p] = newState]
                  /\ toClient' = broadcastGameState(p, newState)
             ELSE UNCHANGED << pageGameState, toClient >>
    /\ inputs' = inputs + 1
    /\ ev' = Event("handlePause", p)
    /\ UNCHANGED << playerInfo, connectionStatus, peers, connections, clientWebSocket,
                    link, toHost, ticks, connects >>
    /\ UNCHANGED refused
    /\ UNCHANGED engineVars

\* +page.svelte:246-270, handleRestart on page p, raised by the player
HandleRestart(p) ==
    /\ InputsLeft
    /\ ticks + inputs + connects < MaxEvents
    /\ GameActive(p)
    /\ IsHost(p) => HostCanSend
    /\ ClientCanSend(p)
    /\ \E r \in handleRestart(p) :
         /\ pageGameState' = [pageGameState EXCEPT ![p] = r.state]
         /\ toClient' = r.toClient
         /\ toHost' = r.toHost
    /\ inputs' = inputs + 1
    /\ ev' = Event("handleRestart", p)
    /\ UNCHANGED << playerInfo, connectionStatus, peers, connections, clientWebSocket,
                    link, ticks, connects >>
    /\ UNCHANGED refused
    /\ UNCHANGED engineVars

Next ==
    \/ InitializeHost
    \/ \E c \in Clients : ConnectToHost(c)
    \/ \E c \in Clients : SocketOpens(c)
    \/ \E c \in Clients : ConnectionLost(c)
    \/ \E c \in Clients : HostOnJoinRequest(c)
    \/ \E c \in Clients : HostOnDirectionChange(c)
    \/ \E c \in Clients : HostOnRestart(c)
    \/ \E c \in Clients : HostOnClose(c)
    \/ \E c \in Clients : HostOnError(c)
    \/ \E c \in Clients : PeerSendsStateUpdate(c)
    \/ \E c \in Clients : HostOnStateUpdate(c)
    \/ \E c \in Clients : ClientOnJoinAccepted(c)
    \/ \E c \in Clients : ClientOnStateUpdate(c)
    \/ \E c \in Clients : ClientOnClose(c)
    \/ \E p \in Pages : GameLoop(p)
    \/ \E p \in Pages, direction \in Directions : HandleDirectionChange(p, direction)
    \/ \E p \in Pages : HandlePause(p)
    \/ \E p \in Pages : HandleRestart(p)

Spec == Init /\ [][Next]_vars

(***************************************************************************)
(* Properties of the host and the clients.                                 *)
(***************************************************************************)
\* client page c has the client role in the state: it has been accepted
HasClientRole(c) == playerInfo[c] # Null /\ ~playerInfo[c].isHost

\* what a tick can change: the snakes' bodies, scores and alive flags, the
\* food and gameOver
TickFields(gameState) ==
    [bodies |-> [k \in 1..Len(gameState.snakes) |-> gameState.snakes[k].body],
     scores |-> [k \in 1..Len(gameState.snakes) |-> gameState.snakes[k].score],
     alive |-> [k \in 1..Len(gameState.snakes) |-> gameState.snakes[k].alive],
     food |-> gameState.food,
     gameOver |-> gameState.gameOver]

\* the step handles a STATE_UPDATE on client page c
ReceivesStateUpdate(c) == ev'.name = "STATE_UPDATE" /\ ev'.who = c

\* C1: no step other than the reception of a STATE_UPDATE changes a snake
\* body, a score, an alive flag, the food or gameOver in the GameState of a
\* page that has the client role before and after the step.
C1_ClientNeverTicks ==
    [][\A c \in Clients :
         (/\ HasClientRole(c)
          /\ playerInfo'[c] # Null
          /\ TickFields(pageGameState'[c]) # TickFields(pageGameState[c]))
            => ReceivesStateUpdate(c)]_vars

\* C2: a direction intent on a client page leaves the page's GameState as it
\* was and, while the connection is up, appends DIRECTION_CHANGE with the
\* client's id and the direction to what the client sent to the host; the
\* reception of a STATE_UPDATE replaces the page's GameState by the payload.
C2_DirectionIntentOnlySends ==
    [][\A c \in Clients :
         /\ (ev'.name = "handleDirectionChange" /\ ev'.who = c) =>
               /\ pageGameState'[c] = pageGameState[c]
               /\ link[c] =>
                    \E direction \in Directions :
                        toHost'[c] = Append(toHost[c], DirectionChange(c, direction))
         /\ ReceivesStateUpdate(c) => pageGameState'[c] = Head(toClient[c]).data]_vars

\* C5: when a firing of the host's game loop leaves no snake alive, it
\* leaves gameOver set (every match starts with all its snakes alive).
C5_GameOverOnceNoneAlive ==
    (/\ ev.name = "gameLoop"
     /\ ev.who = Host
     /\ ~AnyAlive(pageGameState[Host])) => pageGameState[Host].gameOver

\* the connections of the host whose socket is open
OpenConnections == {k \in Clients : k \in connections /\ link[k]}

\* the step appends STATE_UPDATE with the host's new GameState to the queue
\* of every open connection and leaves the other queues alone
BroadcastsNewState ==
    \A k \in Clients :
        toClient'[k] = IF k \in OpenConnections
                         THEN Append(toClient[k], StateUpdate(pageGameState'[Host]))
                         ELSE toClient[k]

\* a direction request the engine refuses on gameState: unknown or dead
\* snake, reversal of a snake longer than one segment, or the snake's own
\* direction
Refused(gameState, id, direction) ==
    LET i == SnakeOf(gameState, id)
    IN  \/ i = 0
        \/ ~gameState.snakes[i].alive
        \/ direction = gameState.snakes[i].direction
        \/ (Len(gameState.snakes[i].body) > 1
              /\ direction = Reverse(gameState.snakes[i].direction))

\* C12: when the host handles DIRECTION_CHANGE{id, direction}, a refused
\* request leaves the host's GameState and every queue to a client as they
\* were; any other request turns the snake with the id and is followed by a
\* broadcast of the new state.
C12_BroadcastIffDirectionChanged ==
    [][\A c \in Clients :
         (ev'.name = "DIRECTION_CHANGE" /\ ev'.who = c) =>
            LET id == Head(toHost[c]).data.id
                direction == Head(toHost[c]).data.direction
                gameState == pageGameState[Host]
            IN  IF Refused(gameState, id, direction)
                  THEN /\ pageGameState'[Host] = gameState
                       /\ toClient' = toClient
                  ELSE /\ pageGameState'[Host] =
                            [gameState EXCEPT
                               !.snakes[SnakeOf(gameState, id)].direction = direction]
                       /\ pageGameState'[Host] # gameState
                       /\ BroadcastsNewState]_vars

\* C12 witness: the host has handled a DIRECTION_CHANGE of a client that
\* turned the client's snake away from the direction it was placed with,
\* and the new state is the last event queued for the client
C12_Witness_TurnBroadcast ==
    /\ ev.name = "DIRECTION_CHANGE"
    /\ LET gameState == pageGameState[Host]
           i == SnakeOf(gameState, ev.who)
       IN  /\ i # 0
           /\ gameState.snakes[i].direction #
                 getInitialSnakePlacement(gameState.snakes[i].playerIndex,
                                          gameState.gridSize,
                                          InitialSnakeLength).direction
           /\ toClient[ev.who] # << >>
           /\ toClient[ev.who][Len(toClient[ev.who])] = StateUpdate(gameState)

\* gameState has a snake with the id
HasSnake(gameState, id) == SnakeOf(gameState, id) # 0

\* the step is the host's handling of a JOIN_REQUEST of client c that
\* addPlayerToGame accepts
JoinSucceeds(c) ==
    /\ ev'.name = "JOIN_REQUEST"
    /\ ev'.who = c
    /\ addPlayerToGame(pageGameState[Host], Head(toHost[c]).data.id) # Null

\* C13, the host's part: handling a JOIN_REQUEST{id} that addPlayerToGame
\* accepts queues JOIN_ACCEPTED{id, isHost: false, ...} and then
\* STATE_UPDATE with a state that has a snake with the id for the requesting
\* client, and the STATE_UPDATE alone for every other open connection.
C13_HostAnswersJoin ==
    \A c \in Clients :
        JoinSucceeds(c) =>
            LET id == Head(toHost[c]).data.id
                n == Len(toClient[c])
                update == StateUpdate(pageGameState'[Host])
            IN  /\ HasSnake(pageGameState'[Host], id)
                /\ link[c] =>
                     /\ Len(toClient'[c]) = n + 2
                     /\ SubSeq(toClient'[c], 1, n) = toClient[c]
                     /\ toClient'[c][n + 1].type = "JOIN_ACCEPTED"
                     /\ toClient'[c][n + 1].data.id = id
                     /\ ~toClient'[c][n + 1].data.isHost
                     /\ toClient'[c][n + 2] = update
                /\ \A k \in Clients \ {c} :
                     toClient'[k] = IF k \in OpenConnections
                                      THEN Append(toClient[k], update)
                                      ELSE toClient[k]

\* C13, the client's part: a client that handles a STATE_UPDATE whose state
\* has a snake with the client's id has its playerInfo set.
C13_InfoBeforeOwnSnake ==
    \A c \in Clients :
        (ReceivesStateUpdate(c) /\ HasSnake(Head(toClient[c]).data, c)) =>
            playerInfo[c] # Null

\* C13: both parts, on every step.
C13_JoinAcceptedThenState ==
    [][C13_HostAnswersJoin /\ C13_InfoBeforeOwnSnake]_vars

\* the step is the host's handling of a JOIN_REQUEST of client c
HandlesJoinRequest(c) == ev'.name = "JOIN_REQUEST" /\ ev'.who = c

\* C14: addPlayerToGame refuses (returns null for) a state that already has
\* the maximum number of snakes, and when the host handles a JOIN_REQUEST on
\* such a state its GameState stays as it is and nothing is sent: neither
\* JOIN_ACCEPTED nor STATE_UPDATE.
C14_FullGameRefusesJoin ==
    [][\A c \in Clients :
         (HandlesJoinRequest(c) /\ Len(pageGameState[Host].snakes) >= MaxPlayers) =>
             /\ addPlayerToGame(pageGameState[Host], Head(toHost[c]).data.id) = Null
             /\ pageGameState'[Host] = pageGameState[Host]
             /\ toClient' = toClient]_vars

\* a JOIN_REQUEST was handled on a full game and the requesting client has
\* no snake and was sent nothing
C14_Witness_RefusedOnFullGame ==
    /\ ev.name = "JOIN_REQUEST"
    /\ Len(pageGameState[Host].snakes) = MaxPlayers
    /\ ~HasSnake(pageGameState[Host], ev.who)
    /\ link[ev.who]
    /\ toClient[ev.who] = << >>

\* the step is the host's handling of the close of its connection of peer c
HandlesPeerDisconnect(c) == ev'.name = "PEER_DISCONNECT" /\ ev'.who = c

\* gameState with every snake of peer id marked dead
WithoutPeer(gameState, id) ==
    [gameState EXCEPT !.snakes =
        [i \in 1..Len(gameState.snakes) |->
            IF gameState.snakes[i].id = id
              THEN [gameState.snakes[i] EXCEPT !.alive = FALSE]
              ELSE gameState.snakes[i]]]

\* C15: when the host handles the close of peer c's connection, c leaves the
\* roster and the connection set, the host's GameState becomes the old one
\* with the snake of id c dead (all other snakes, the food and the flags as
\* they were), and when that changed the state it is broadcast to the
\* remaining open connections.
C15_PeerDisconnectMarksDead ==
    [][\A c \in Clients :
         HandlesPeerDisconnect(c) =>
             /\ c \notin connections'
             /\ c \notin Range(peers'[Host])
             /\ pageGameState'[Host] = WithoutPeer(pageGameState[Host], c)
             /\ pageGameState'[Host] # pageGameState[Host] =>
                  \A k \in Clients :
                      toClient'[k] =
                          IF k \in OpenConnections \ {c}
                            THEN Append(toClient[k], StateUpdate(pageGameState'[Host]))
                            ELSE toClient[k]]_vars

\* the step is one in which the host page broadcasts its GameState from its
\* own loop or from an intent of its player
HostBroadcasts ==
    /\ ev'.who = Host
    /\ ev'.name \in {"gameLoop", "handlePause", "handleRestart"}

\* C16: when the host broadcasts while the socket of one of its connections
\* is no longer open, the send to it fails and that step removes the
\* connection from the host's connection set and leaves no snake of that
\* peer alive; nothing is queued for the failed connection.
C16_FailedSendRemovesConnection ==
    [][HostBroadcasts =>
         \A c \in connections :
             ~link[c] =>
                 /\ c \notin connections'
                 /\ pageGameState'[Host] = WithoutPeer(pageGameState'[Host], c)
                 /\ toClient'[c] = toClient[c]]_vars

\* the step is a pause intent raised on page p
PauseIntent(p) == ev'.name = "handlePause" /\ ev'.who = p

\* the step replaces the host's GameState by a new match
HostRestarts == ev'.name \in {"handleRestart", "RESTART"}

\* C17: a pause intent on the host flips isPaused of the host's GameState,
\* changes nothing else in it and broadcasts the new state; a pause intent
\* on a client changes no page's GameState and sends nothing; and within a
\* match no other step changes isPaused of the host's GameState.
C17_PauseOnlyFromHost ==
    [][/\ PauseIntent(Host) =>
            /\ pageGameState'[Host] = [pageGameState[Host] EXCEPT !.isPaused = ~@]
            /\ BroadcastsNewState
       /\ \A c \in Clients :
            PauseIntent(c) => UNCHANGED << pageGameState, toHost, toClient >>
       /\ pageGameState'[Host].isPaused # pageGameState[Host].isPaused =>
            PauseIntent(Host) \/ HostRestarts]_vars

\* the host has paused a match with a joined client and the paused state is
\* the last message queued for that client
C17_Witness_HostPaused ==
    /\ ev.name = "handlePause"
    /\ ev.who = Host
    /\ pageGameState[Host].isPaused
    /\ \E c \in Clients :
         /\ HasSnake(pageGameState[Host], c)
         /\ toClient[c] # << >>
         /\ toClient[c][Len(toClient[c])] = StateUpdate(pageGameState[Host])

\* the step is a restart handled by the host: an intent of its player or a
\* RESTART message of a client
HostHandlesRestart ==
    \/ ev'.name = "handleRestart" /\ ev'.who = Host
    \/ ev'.name = "RESTART"

\* the sequences that list every element of set S exactly once
Orderings(S) ==
    {ids \in [1..Cardinality(S) -> S] : Range(ids) = S}

\* C18: a restart handled by the host replaces its GameState by
\* initializeGame of the host's id followed by the ids of the peers
\* connected at that moment, and broadcasts it; in the new state every snake
\* is alive with score 0, gameOver and isPaused are false, and every snake
\* belongs to the host or to a connected peer. A restart intent on a client
\* leaves every page's GameState alone and sends at most RESTART to the host.
C18_RestartReinitializes ==
    [][/\ HostHandlesRestart =>
            /\ \E ids \in Orderings(connections) :
                 pageGameState'[Host] \in
                     initializeGame(<< playerInfo[Host].id >> \o ids, DefaultSettings)
            /\ BroadcastsNewState
            /\ \A i \in SnakeIndexes(pageGameState'[Host]) :
                 /\ pageGameState'[Host].snakes[i].alive
                 /\ pageGameState'[Host].snakes[i].score = 0
                 /\ pageGameState'[Host].snakes[i].id \in {playerInfo[Host].id} \cup connections
            /\ ~pageGameState'[Host].gameOver
            /\ ~pageGameState'[Host].isPaused
       /\ \A c \in Clients :
            (ev'.name = "handleRestart" /\ ev'.who = c) =>
                /\ UNCHANGED << pageGameState, toClient >>
                /\ toHost' \in {toHost, [toHost EXCEPT ![c] = Append(@, Restart)]}
                /\ link[c] /\ clientWebSocket[c] = "OPEN" => toHost' # toHost]_vars

\* C19: as long as no restart replaces the host's GameState, a snake that is
\* dead stays dead, at the same index, with the same id, body, direction and
\* score, whatever the step is: a tick, a direction change, a join or a
\* disconnect.
C19_DeadSnakesStayFrozen ==
    [][~HostHandlesRestart =>
         \A i \in SnakeIndexes(pageGameState[Host]) :
             ~pageGameState[Host].snakes[i].alive =>
                 /\ i \in SnakeIndexes(pageGameState'[Host])
                 /\ pageGameState'[Host].snakes[i] = pageGameState[Host].snakes[i]]_vars

\* the host's loop has fired on a match in which the snake of a departed
\* peer was dead before the first tick
C19_Witness_TickWithDeadSnake ==
    /\ ev.name = "gameLoop"
    /\ ev.who = Host
    /\ ticks = 1
    /\ \E i \in SnakeIndexes(pageGameState[Host]) :
         /\ ~pageGameState[Host].snakes[i].alive
         /\ pageGameState[Host].snakes[i].body =
              getInitialSnakePlacement(i - 1, pageGameState[Host].gridSize,
                                       InitialSnakeLength).body
         /\ \E j \in SnakeIndexes(pageGameState[Host]) :
              /\ pageGameState[Host].snakes[j].alive
              /\ pageGameState[Host].snakes[j].body #
                   getInitialSnakePlacement(j - 1, pageGameState[Host].gridSize,
                                            InitialSnakeLength).body
         /\ pageGameState[Host].snakes[i].id \in Clients
         /\ SnakeOf(pageGameState[Host], pageGameState[Host].snakes[i].id) = i
         /\ pageGameState[Host].snakes[i].id \notin connections
         /\ toHost[pageGameState[Host].snakes[i].id] = << >>

\* C20: no two snakes of the host's GameState have the same id.
C20_UniqueSnakeIds ==
    \A i, j \in SnakeIndexes(pageGameState[Host]) :
        pageGameState[Host].snakes[i].id = pageGameState[Host].snakes[j].id => i = j

\* the STATE_UPDATE messages in a queue
StateUpdatesIn(queue) == SelectSeq(queue, LAMBDA m : m.type = "STATE_UPDATE")

\* C21: the host's handling of a STATE_UPDATE it receives leaves its
\* GameState as it is and sends nothing to any client; and no step of a
\* client page (its loop, its intents, its handlers) puts a STATE_UPDATE on
\* its connection to the host.
C21_HostDropsStateUpdate ==
    [][/\ (ev'.name = "STATE_UPDATE" /\ ev'.who = Host) =>
            /\ pageGameState'[Host] = pageGameState[Host]
            /\ toClient' = toClient
       /\ ev'.name # "peerSendsStateUpdate" =>
            \A c \in Clients :
                Len(StateUpdatesIn(toHost'[c])) <= Len(StateUpdatesIn(toHost[c]))]_vars

\* the host has handled a STATE_UPDATE while a connected peer holds a
\* GameState that differs from the host's
C21_Witness_HostGotStateUpdate ==
    /\ ev.name = "STATE_UPDATE"
    /\ ev.who = Host
    /\ \E c \in OpenConnections :
         /\ playerInfo[c] # Null
         /\ pageGameState[c] # pageGameState[Host]

\* the step is a firing of the host's game loop that applies a tick
HostTicks == ev'.name = "gameLoop" /\ ev'.who = Host

\* C22: a tick of the host is applied only to a state that is neither
\* paused nor over, and the same step puts exactly one STATE_UPDATE with the
\* tick's result on every open connection, also when the result equals the
\* state before the tick.
C22_EveryTickIsBroadcast ==
    [][HostTicks =>
         /\ ~pageGameState[Host].gameOver
         /\ ~pageGameState[Host].isPaused
         /\ pageGameState'[Host] \in updateGame(pageGameState[Host])
         /\ BroadcastsNewState]_vars

\* the host has ticked a match with a joined client, and the moved state is
\* the last message queued for that client
C22_Witness_TickBroadcast ==
    /\ ev.name = "gameLoop"
    /\ ev.who = Host
    /\ \E c \in OpenConnections :
         /\ HasSnake(pageGameState[Host], c)
         /\ pageGameState[Host].snakes[SnakeOf(pageGameState[Host], c)].body #
              getInitialSnakePlacement(SnakeOf(pageGameState[Host], c) - 1,
                                       pageGameState[Host].gridSize,
                                       InitialSnakeLength).body
         /\ toClient[c] # << >>
         /\ toClient[c][Len(toClient[c])] = StateUpdate(pageGameState[Host])

\* the step is the close event of client c's socket
ClientCloses(c) == ev'.name = "onclose" /\ ev'.who = c

\* C23: the close of a client's connection leaves the client disconnected,
\* without PlayerInfo, with an empty roster and with the placeholder as its
\* GameState; and a client page puts a DIRECTION_CHANGE or RESTART on its
\* connection only while it is connected with PlayerInfo and an open socket.
C23_ClientTeardownOnClose ==
    [][\A c \in Clients :
         /\ ClientCloses(c) =>
              /\ connectionStatus'[c] = "disconnected"
              /\ playerInfo'[c] = Null
              /\ peers'[c] = << >>
              /\ clientWebSocket'[c] = "null"
              /\ pageGameState'[c] \in Placeholder
         /\ (/\ Len(toHost'[c]) > Len(toHost[c])
             /\ toHost'[c][Len(toHost'[c])].type \in {"DIRECTION_CHANGE", "RESTART"}) =>
                GameActive(c) /\ clientWebSocket[c] = "OPEN"]_vars

\* the snakes of the host's GameState carry their list position as
\* playerIndex and are at most MaxPlayers
IndexesInOrder ==
    /\ Len(pageGameState[Host].snakes) <= MaxPlayers
    /\ \A i \in SnakeIndexes(pageGameState[Host]) :
         pageGameState[Host].snakes[i].playerIndex = i - 1

\* the first snake of the host's GameState is the host's own
HostIsFirst == pageGameState[Host].snakes[1].id = playerInfo[Host].id

\* the step keeps every snake of the host's GameState at its position with
\* its playerIndex, and a snake it adds comes last with the old count as
\* playerIndex
SnakesOnlyAppended ==
    /\ Len(pageGameState'[Host].snakes) >= Len(pageGameState[Host].snakes)
    /\ \A i \in SnakeIndexes(pageGameState[Host]) :
         /\ pageGameState'[Host].snakes[i].id = pageGameState[Host].snakes[i].id
         /\ pageGameState'[Host].snakes[i].playerIndex =
              pageGameState[Host].snakes[i].playerIndex
    /\ \A i \in SnakeIndexes(pageGameState'[Host]) \ SnakeIndexes(pageGameState[Host]) :
         /\ i = Len(pageGameState[Host].snakes) + 1
         /\ pageGameState'[Host].snakes[i].playerIndex = Len(pageGameState[Host].snakes)

\* C28: while the host page hosts, the snake at list position i of its
\* GameState has playerIndex i, the first snake is the host's, and there are
\* at most MaxPlayers snakes; and within a match (no restart) snakes are only
\* appended, with the old count as playerIndex, so that no playerIndex is
\* given to a second snake.
C28_PlayerIndexIsPosition ==
    [][/\ IsHost(Host)' => (IndexesInOrder' /\ HostIsFirst')
       /\ (IsHost(Host) /\ ~HostHandlesRestart) => SnakesOnlyAppended]_vars

\* gameState with its snakes listed in the order perm
Permuted(gameState, perm) ==
    [gameState EXCEPT !.snakes = [k \in 1..Len(perm) |-> gameState.snakes[perm[k]]]]

\* C29: the snakes a tick kills and the new head of every snake that
\* survives it do not depend on the order in which the tick goes through
\* the snakes: a tick on the same state with its snakes listed in any other
\* order kills the same snakes and gives the survivors the same heads.
C29_DeathsIndependentOfOrder ==
    TickedRunning =>
        \A perm \in Orderings(SnakeIndexes(ePrev)) :
            \A other \in updateGame(Permuted(ePrev, perm)) :
                \A k \in SnakeIndexes(ePrev) :
                    /\ other.snakes[k].alive = eState.snakes[perm[k]].alive
                    /\ other.snakes[k].alive =>
                         other.snakes[k].body[1] = eState.snakes[perm[k]].body[1]

\* a snake died on the cell that a snake earlier in the list left in the
\* same tick
C29_Witness_DiedOnVacatedCell ==
    /\ TickedRunning
    /\ \E i, j \in SnakeIndexes(ePrev) :
         /\ j < i
         /\ ePrev.snakes[i].alive
         /\ ~eState.snakes[i].alive
         /\ Advanced(j)
         /\ NextHead(ePrev, i) = ePrev.snakes[j].body[Len(ePrev.snakes[j].body)]
         /\ NextHead(ePrev, i) \notin BodyCells(eState) \ Range(eState.snakes[i].body)

\* the last call was addPlayerToGame
AddedPlayer == eOp.name = "addPlayerToGame"

\* the spawn addPlayerToGame uses for the next snake of gameState
NextSpawn(gameState) ==
    TemplatedSpawn(Len(gameState.snakes), gameState.gridSize, InitialSnakeLength)

\* a cell of the next spawn of gameState holds a segment of a snake, alive
\* or dead, or a food item
SpawnOccupied(gameState) ==
    Range(NextSpawn(gameState).body)
        \cap (BodyCells(gameState) \cup Range(gameState.food)) # {}

\* after differs from before only by one snake appended to the list
OnlyAppended(before, after) ==
    /\ Len(after.snakes) = Len(before.snakes) + 1
    /\ SubSeq(after.snakes, 1, Len(before.snakes)) = before.snakes
    /\ after.food = before.food
    /\ after.gridSize = before.gridSize
    /\ after.gameOver = before.gameOver
    /\ after.isPaused = before.isPaused

\* C30: addPlayerToGame returns null, and the state stays as it was,
\* whenever a cell of the spawn of the next playerIndex holds a segment of
\* any snake, alive or dead, or a food item; when it returns a state, that
\* state differs from the given one only by the snake appended to the list.
C30_AddPlayerRefusesOccupiedSpawn ==
    AddedPlayer =>
        LET newState == addPlayerToGame(ePrev, eOp.id)
        IN  /\ (Len(ePrev.snakes) < MaxPlayers /\ SpawnOccupied(ePrev)) =>
                   (newState = Null /\ eState = ePrev)
            /\ newState # Null =>
                   /\ eState = newState
                   /\ OnlyAppended(ePrev, eState)
                   /\ eState.snakes[Len(eState.snakes)].id = eOp.id
                   /\ eState.snakes[Len(eState.snakes)].body = NextSpawn(ePrev).body

\* a player was refused because a food item, and no snake, lies on the spawn
C30_Witness_RefusedOnFood ==
    /\ AddedPlayer
    /\ Len(ePrev.snakes) < MaxPlayers
    /\ Range(NextSpawn(ePrev).body) \cap Range(ePrev.food) # {}
    /\ Range(NextSpawn(ePrev).body) \cap BodyCells(ePrev) = {}
    /\ eState = ePrev

\* the messages of a type in a queue
OfType(queue, type) == SelectSeq(queue, LAMBDA m : m.type = type)

\* C32: when addPlayerToGame returns null for a JOIN_REQUEST (full game or
\* occupied spawn), the host's handler sends nothing and leaves its state as
\* it is; and as long as the client stays on that connection no
\* JOIN_ACCEPTED is on its way to it, its playerInfo is null, also after the
\* host restarts the game, and it puts no DIRECTION_CHANGE on its connection.
C32_RefusedClientHasNoRole ==
    [][\A c \in Clients :
         /\ (HandlesJoinRequest(c)
               /\ addPlayerToGame(pageGameState[Host], Head(toHost[c]).data.id) = Null) =>
                /\ toClient' = toClient
                /\ pageGameState' = pageGameState
                /\ c \in refused'
         /\ c \in refused' =>
                /\ playerInfo'[c] = Null
                /\ OfType(toClient'[c], "JOIN_ACCEPTED") = << >>
                /\ OfType(toHost'[c], "DIRECTION_CHANGE") = << >>
                /\ ~(ev'.name = "handleDirectionChange" /\ ev'.who = c)]_vars

\* the host has restarted the game with a snake for a client it had refused,
\* and the client, still connected, has no playerInfo
C32_Witness_RestartAfterRefusal ==
    /\ ev.name = "handleRestart"
    /\ ev.who = Host
    /\ \E c \in refused :
         /\ link[c]
         /\ clientWebSocket[c] = "OPEN"
         /\ HasSnake(pageGameState[Host], c)
         /\ playerInfo[c] = Null

\* C33: whenever gameOver is set in the host's GameState, none of its snakes
\* is alive, also after a JOIN_REQUEST handled when the game was over.
C33_GameOverMeansNoneAlive ==
    pageGameState[Host].gameOver => ~AnyAlive(pageGameState[Host])

\* no cell holds segments of two different snakes of gameState
DisjointBodies(gameState) ==
    \A i, j \in SnakeIndexes(gameState) :
        i # j => Range(gameState.snakes[i].body) \cap Range(gameState.snakes[j].body) = {}

\* C34: in the host's GameState no cell holds body segments of two different
\* snakes; two alive snakes whose next head cell is the same free cell do
\* not both end the tick with their heads on it.
C34_NoSharedCells == DisjointBodies(pageGameState[Host])

\* client c has called connectToHost and its socket has neither opened nor
\* failed
Pending(c) == clientWebSocket[c] = "CONNECTING"

\* C36: while the socket of a connectToHost call has neither opened nor
\* failed the connectionStatus store is 'connecting', and no connectToHost
\* call on the same page gets past the guard and replaces that socket.
C36_ConnectingUntilOpened ==
    [][\A c \in Clients :
         /\ Pending(c)' => connectionStatus'[c] = "connecting"
         /\ (ev'.name = "connectToHost" /\ ev'.who = c) => ~Pending(c)]_vars

\* the step is the host's handling of the error event of its socket of
\* peer c, in which the closure of c is reported three times
HandlesPeerError(c) == ev'.name = "PEER_ERROR" /\ ev'.who = c

\* C37: when the closure of a peer is reported to the host page several
\* times (error callback, close callback, close event), the host's state and
\* what it has sent after the last report are what they were after the
\* first: the later reports change nothing and send nothing.
C37_PeerDisconnectIdempotent ==
    [][\A c \in Clients :
         HandlesPeerError(c) =>
             LET first == onPeerDisconnect(connections', pageGameState[Host], toClient, c)
             IN  /\ pageGameState'[Host] = first.state
                 /\ toClient' = first.toClient
                 /\ \A k \in Clients :
                      Len(StateUpdatesIn(toClient'[k])) <= Len(StateUpdatesIn(toClient[k])) + 1]_vars

\* the closure of a peer with an alive snake was reported three times while
\* another client was connected, and that client was sent one STATE_UPDATE
C37_Witness_ReportedThrice ==
    /\ ev.name = "PEER_ERROR"
    /\ HasSnake(pageGameState[Host], ev.who)
    /\ ~pageGameState[Host].snakes[SnakeOf(pageGameState[Host], ev.who)].alive
    /\ \E k \in Clients \ {ev.who} :
         /\ k \in connections
         /\ link[k]
         /\ Len(StateUpdatesIn(toClient[k])) = 1
         /\ toClient[k][Len(toClient[k])].data = pageGameState[Host]

\* C38: for every accepted client, every snake of its replica that has the
\* client's id has the playerIndex and the color of the client's playerInfo,
\* after any joins, disconnects of other peers and restarts.
C38_PlayerInfoMatchesSnake ==
    \A c \in Clients :
        HasClientRole(c) =>
            \A i \in SnakeIndexes(pageGameState[c]) :
                pageGameState[c].snakes[i].id = c =>
                    /\ playerInfo[c].playerIndex = pageGameState[c].snakes[i].playerIndex
                    /\ playerInfo[c].color = pageGameState[c].snakes[i].color


\* the host's game is paused before and after the step
StaysPaused ==
    /\ pageGameState[Host] # Null
    /\ pageGameState'[Host] # Null
    /\ pageGameState[Host].isPaused
    /\ pageGameState'[Host].isPaused

\* the snakes of the host's game keep direction, body, score and alive flag
SnakesFrozen ==
    \A i \in SnakeIndexes(pageGameState[Host]) :
        /\ i \in SnakeIndexes(pageGameState'[Host])
        /\ pageGameState'[Host].snakes[i].direction = pageGameState[Host].snakes[i].direction
        /\ pageGameState'[Host].snakes[i].body = pageGameState[Host].snakes[i].body
        /\ pageGameState'[Host].snakes[i].score = pageGameState[Host].snakes[i].score
        /\ pageGameState'[Host].snakes[i].alive = pageGameState[Host].snakes[i].alive

\* C40: while the host's GameState is paused, and until the host resumes or
\* restarts, no step changes the direction, body, score or alive flag of a
\* snake; a direction intent on the host page and a DIRECTION_CHANGE handled
\* by the host during the pause leave the host's state as it was and put no
\* message on any connection.
C40_PausedStateFrozen ==
    [][(StaysPaused /\ ~HostRestarts) =>
         /\ SnakesFrozen
         /\ (\/ ev'.name = "DIRECTION_CHANGE"
             \/ ev'.name = "handleDirectionChange" /\ ev'.who = Host) =>
                /\ pageGameState'[Host] = pageGameState[Host]
                /\ toClient' = toClient]_vars

====
